---------------------------- MODULE Spec2Model ----------------------------
(***************************************************************************)
(* Federation engine of the lysand server: the inbox route (signature      *)
(* verification, bridge bypass, activity dispatch), the resolution of      *)
(* remote actors and notes into rows of the store, and the visibility and  *)
(* thread assembly built on the stored notes.                              *)
(*                                                                         *)
(* The store is one record `db` (the tables Users, Instances, Notes,       *)
(* Relationships, Notifications).  Every static method of the source is an *)
(* operator from a store (and the inputs of the call) to a result record   *)
(* holding the store it leaves behind: a call that throws keeps the writes *)
(* it made before throwing, as the source runs without a transaction.      *)
(***************************************************************************)
EXTENDS Naturals, Integers, Sequences, FiniteSets, Bags, TLC

VARIABLES
    db,      \* the store, plus the log of the last request's resolver events
    cfg,     \* config.federation.bridge / config.federation.blocked
    req,     \* the last request (or operation) that was handled
    resp,    \* the response given to it
    ctx,     \* what the thread engine returned to the last call
    race     \* operations in flight, step by step: two resolutions of one
             \* uncached uri, or the deliveries an update started

vars == <<db, cfg, req, resp, ctx, race>>

---------------------------------------------------------------------------
(* Actors, URIs and what the remote servers serve *)

LocalActors == {"L1", "L2"}
RemoteActors == {"R1", "R2"}
Actors == LocalActors \cup RemoteActors

\* Users.isLocked of the local users; remote rows keep the column's default
isLocked(a) == a = "L2"

\* Users.instanceId IS NULL
isLocal(a) == a \in LocalActors

RemoteNoteNames == {"N1", "N2"}

NoUri == [t |-> "none", v |-> "", n |-> 0]

\* a URI under config.http.base_url carrying the id v of a user
LocalUserUri(v) == [t |-> "local", v |-> v, n |-> 0]

\* a URI under config.http.base_url carrying the id k of a note
LocalNoteUri(k) == [t |-> "local", v |-> "note", n |-> k]

\* a URI of another origin
RemoteUri(v) == [t |-> "remote", v |-> v, n |-> 0]

\* a URI under base_url in which idValidator finds no id
UnparsableLocalUri == [t |-> "local", v |-> "nouuid", n |-> 0]

getUri(a) == IF isLocal(a) THEN LocalUserUri(a) ELSE RemoteUri(a)

Host(a) == IF a = "R1" THEN "h1" ELSE "h2"

NoteAuthor(nm) == IF nm = "N1" THEN "R1" ELSE "R2"

\* The Note entity a remote server serves at the uri of note nm.
ServedNote(nm) ==
    [type |-> "Note",
     uri |-> RemoteUri(nm),
     author |-> RemoteUri(NoteAuthor(nm)),
     visibility |-> IF nm = "N1" THEN "public" ELSE "direct",
     content |-> "c1",
     mentions |-> IF nm = "N1" THEN << >> ELSE <<LocalUserUri("L1")>>,
     replies_to |-> IF nm = "N1" THEN NoUri ELSE RemoteUri("N1"),
     quotes |-> NoUri]

\* The JSON a GET of a remote uri answers with.
Served(uri) ==
    IF uri.v \in RemoteActors THEN [type |-> "User", name |-> uri.v]
    ELSE IF uri.v \in RemoteNoteNames THEN ServedNote(uri.v)
    ELSE [type |-> "Error"]

\* The edition of its profile an origin serves while the network is in
\* state net: "new" is the network up with the actors' profiles edited.
Edition(net) == IF net = "new" THEN "v2" ELSE "v1"

\* extensions["org.lysand:custom_emojis"].emojis of a served profile: the
\* edited profile lists no emoji
EditionEmojis(net) == IF net = "new" THEN {} ELSE {"e1"}

\* The User entity a GET of an actor's uri answers with; under
\* "malformed_user" the origins serve actors that validator.User rejects.
ServedUser(uri, net) ==
    IF Served(uri).type = "User" /\ net # "malformed_user"
    THEN [type |-> "User", name |-> uri.v, display_name |-> Edition(net),
          fields |-> Edition(net), emojis |-> EditionEmojis(net)]
    ELSE [type |-> "Error", name |-> "", display_name |-> "", fields |-> "",
          emojis |-> {}]

---------------------------------------------------------------------------
(* The store *)

EmptyDb ==
    [Users |-> {}, Profiles |-> {}, EmojiToUser |-> {}, Instances |-> {},
     Notes |-> {}, Likes |-> {},
     Relationships |-> {}, Notifications |-> EmptyBag, nextId |-> 1,
     log |-> {}]

\* the columns of a remote actor's Users row that its origin decides
Profile(a, displayName, fields) ==
    [id |-> a, displayName |-> displayName, fields |-> fields]

\* the tables alone, without the log of resolver events
Store(d) == [d EXCEPT !.log = {}]

Ev(d, e, uri) == [d EXCEPT !.log = @ \cup {[e |-> e, uri |-> uri]}]

\* the element of a singleton: One({e(x) : x \in {v}}) is e(v), with v
\* evaluated once
One(S) == CHOOSE x \in S : TRUE

\* a result: st is "ok" (a row, its id in id), "null" or "throw"
Ret(d, st, id) == [db |-> d, st |-> st, id |-> id]

\* the row of a set of rows that a query `ORDER BY id DESC LIMIT 1` returns
FirstById(rows) == CHOOSE r \in rows : \A q \in rows : q.id <= r.id

\* ON DELETE of a Notes row: rows that reference it go or lose the reference
CascadeNote(d, id) ==
    [d EXCEPT
       !.Notes = {[n EXCEPT !.replyId = IF @ = id THEN 0 ELSE @,
                            !.quotingId = IF @ = id THEN 0 ELSE @] :
                     n \in {m \in @ : m.id # id /\ m.reblogId # id}},
       !.Likes = {l \in @ : l.likedId # id},
       !.Notifications =
           [r \in {x \in DOMAIN @ : x.noteId # id} |-> @[r]]]

\* ON DELETE of a Users row: full teardown of what the user owns
CascadeUser(d, a) ==
    LET own == {n.id : n \in {m \in d.Notes : m.authorId = a}}
        d1 == [d EXCEPT
                 !.Users = @ \ {a},
                 !.Profiles = {p \in @ : p.id # a},
                 !.EmojiToUser = {e \in @ : e.userId # a},
                 !.Likes = {l \in @ : l.likerId # a /\ l.likedId \notin own},
                 !.Relationships =
                     {r \in @ : r.ownerId # a /\ r.subjectId # a},
                 !.Notifications =
                     [r \in {x \in DOMAIN @ : /\ x.accountId # a
                                              /\ x.notifiedId # a
                                              /\ x.noteId \notin own} |-> @[r]],
                 !.Notes =
                     {[n EXCEPT !.mentions = @ \ {a},
                                !.replyId = IF @ \in own THEN 0 ELSE @,
                                !.quotingId = IF @ \in own THEN 0 ELSE @] :
                        n \in {m \in @ : /\ m.authorId # a
                                         /\ m.reblogId \notin own}}]
    IN d1

---------------------------------------------------------------------------
(* User: packages/database-interface/user.ts *)

\* User.fromId
UserFromId(d, id) ==
    IF id \in d.Users THEN Ret(d, "ok", id) ELSE Ret(d, "null", "")

\* a lookup by uri that finds no row
UserFromUri_Miss(d, uri) == Ret(d, "null", "")

\* User.fromSql(eq(Users.uri, uri)): local rows have a null uri
UserFromUri(d, uri) ==
    IF uri.t = "remote" /\ uri.v \in d.Users /\ ~isLocal(uri.v)
    THEN Ret(d, "ok", uri.v) ELSE Ret(d, "null", "")

\* User.update(data) of a row found by uri: the columns in data are
\* written, and as data always holds endpoints and publicKey the profile is
\* then federated, `this.federateToFollowers(this.toLysand())`; toLysand
\* throws for a remote user, and a row that has a uri is one
UserUpdate(d, a, displayName) ==
    Ret([d EXCEPT !.Profiles =
            {IF p.id = a THEN [p EXCEPT !.displayName = displayName] ELSE p :
                p \in @}],
        "throw", "")

\* emojis.map((emoji) => ({emojiId: emoji.id, userId: ...}))
EmojiRows(a, emojis) == {[userId |-> a, emoji |-> e] : e \in emojis}

\* the update branch's `if (emojis.length > 0) {...}`: the actor's rows are
\* deleted and the new ones inserted only when the payload lists an emoji
ReplaceEmojis(d, a, emojis) ==
    IF emojis # {}
    THEN [d EXCEPT !.EmojiToUser =
             {e \in @ : e.userId # a} \cup EmojiRows(a, emojis)]
    ELSE d

\* addUserToMeilisearch(finalUser): the registration of the actor in the
\* search index, called by the insert branch alone
addUserToMeilisearch(d, uri) == Ev(d, "index", uri)

\* User.saveFromRemote: fetch, validate, register the instance, then update
\* the row found by uri or insert a new one
UserSaveFromRemote(d, uri, net) ==
    LET d0 == Ev(d, "fetch", uri) IN
    IF uri = NoUri THEN Ret(d, "throw", "")
    ELSE IF net = "down" THEN Ret(d0, "throw", "")
    ELSE LET json == ServedUser(uri, net) IN
         IF json.type # "User" THEN Ret(d0, "throw", "")
         ELSE LET a == json.name
                  d1 == [d0 EXCEPT !.Instances = @ \cup {Host(a)}]
              IN IF UserFromUri(d1, RemoteUri(a)).st = "ok"
                 THEN One({IF upd.st = "throw" THEN upd
                           ELSE Ret(ReplaceEmojis(upd.db, a, json.emojis),
                                    "ok", a) :
                              upd \in {UserUpdate(Ev(d1, "update", uri), a,
                                                  json.display_name)}})
                 ELSE Ret(addUserToMeilisearch(
                              Ev([d1 EXCEPT
                                    !.Users = @ \cup {a},
                                    !.Profiles = @ \cup
                                        {Profile(a, json.display_name,
                                                 json.fields)},
                                    !.EmojiToUser =
                                        @ \cup EmojiRows(a, json.emojis)],
                                 "insert", uri),
                              uri),
                          "ok", a)

\* User.resolve
UserResolve(d, uri, net) ==
    IF UserFromUri(d, uri).st = "ok" THEN UserFromUri(d, uri)
    ELSE IF uri.t = "local"
         THEN IF uri.v = "nouuid" THEN Ret(d, "throw", "")
              ELSE UserFromId(d, uri.v)
         ELSE UserSaveFromRemote(d, uri, net)

\* User.delete
UserDelete(d, a) == CascadeUser(d, a)

---------------------------------------------------------------------------
(* Note: packages/database-interface/note.ts *)

\* no providedNote
NoNote ==
    [type |-> "none", uri |-> NoUri, author |-> NoUri, visibility |-> "",
     content |-> "", mentions |-> << >>, replies_to |-> NoUri,
     quotes |-> NoUri]

\* Note.fromSql(eq(Notes.uri, uri))
NotesWithUri(d, uri) == {n \in d.Notes : uri # NoUri /\ n.uri = uri}

\* Note.fromId
NoteFromId(d, id) ==
    IF \E n \in d.Notes : n.id = id THEN Ret(d, "ok", id) ELSE Ret(d, "null", 0)

\* The `for (const mention of mentions)` loops of fromData/updateFromData
\* over the resolved users: `mention.id` of a null entry (here "") is a
\* TypeError, and the entries connected before it stay connected.
ConnectedBefore(ids) ==
    LET bad == {i \in 1..Len(ids) : ids[i] = ""}
        stop == IF bad = {} THEN Len(ids) + 1
                ELSE CHOOSE i \in bad : \A j \in bad : i <= j
    IN [set |-> {ids[i] : i \in 1..(stop - 1)}, threw |-> bad # {}]

\* Note.fromData: insert the row, connect the mentions, notify the mentioned
\* local users
NoteFromData(d, author, note, ids, replyId, quoteId) ==
    LET id == d.nextId
        cm == ConnectedBefore(ids)
        row == [id |-> id, uri |-> note.uri, authorId |-> author,
                visibility |-> note.visibility, content |-> note.content,
                replyId |-> replyId, quotingId |-> quoteId,
                reblogId |-> 0, mentions |-> cm.set]
        d1 == Ev([d EXCEPT !.Notes = @ \cup {row}, !.nextId = @ + 1],
                 "insert", note.uri)
        notifs == SetToBag({[accountId |-> author, notifiedId |-> m,
                             type |-> "mention", noteId |-> id] :
                               m \in {x \in cm.set : isLocal(x)}})
    IN IF cm.threw THEN Ret(d1, "throw", 0)
       ELSE Ret([d1 EXCEPT !.Notifications = @ (+) notifs], "ok", id)

\* an update that notifies the mentioned local users as a creation does
NoteUpdateFromData_Notifies(d, row, note, ids, replyId, quoteId) ==
    LET cm == ConnectedBefore(ids)
        new == [row EXCEPT !.visibility = note.visibility,
                           !.content = note.content,
                           !.replyId = IF replyId = 0 THEN @ ELSE replyId,
                           !.quotingId = IF quoteId = 0 THEN @ ELSE quoteId,
                           !.mentions = cm.set]
        d1 == Ev([d EXCEPT !.Notes = (@ \ {m \in @ : m.id = row.id})
                                        \cup {new}],
                 "update", row.uri)
        notifs == SetToBag({[accountId |-> row.authorId, notifiedId |-> m,
                             type |-> "mention", noteId |-> row.id] :
                               m \in {x \in cm.set : isLocal(x)}})
    IN IF cm.threw THEN Ret(d1, "throw", 0)
       ELSE Ret([d1 EXCEPT !.Notifications = @ (+) notifs], "ok", row.id)

\* Note.updateFromData: update the row in place, then replace its mentions by
\* delete-then-reinsert; an undefined replyId or quoteId leaves its column alone
NoteUpdateFromData(d, row, note, ids, replyId, quoteId) ==
    LET cm == ConnectedBefore(ids)
        new == [row EXCEPT !.visibility = note.visibility,
                           !.content = note.content,
                           !.replyId = IF replyId = 0 THEN @ ELSE replyId,
                           !.quotingId = IF quoteId = 0 THEN @ ELSE quoteId,
                           !.mentions = cm.set]
        d1 == Ev([d EXCEPT !.Notes = (@ \ {m \in @ : m.id = row.id})
                                        \cup {new}],
                 "update", row.uri)
    IN IF cm.threw THEN Ret(d1, "throw", 0) ELSE Ret(d1, "ok", row.id)

\* Promise.all(mentions.map((mention) => User.resolve(mention))): every
\* resolution runs; one rejection rejects the whole
RECURSIVE ResolveMentions(_, _, _)
ResolveMentions(d, ms, net) ==
    IF ms = << >> THEN [db |-> d, ids |-> << >>, threw |-> FALSE]
    ELSE LET u == UserResolve(d, Head(ms), net)
             rest == ResolveMentions(u.db, Tail(ms), net)
         IN [db |-> rest.db,
             ids |-> <<IF u.st = "ok" THEN u.id ELSE "">> \o rest.ids,
             threw |-> u.st = "throw" \/ rest.threw]

RECURSIVE MentionUris(_)
\* status.mentions.map((mention) => mention.uri || ""): a local user has no
\* uri and is listed as the empty string
MentionUris(S) ==
    IF S = {} THEN << >>
    ELSE LET a == CHOOSE x \in S : TRUE
         IN <<IF isLocal(a) THEN NoUri ELSE RemoteUri(a)>>
                \o MentionUris(S \ {a})

\* Note.toLysand: uri is getURI(), the uri of the row's id under base_url,
\* and not the uri column
NoteToLysand(row) ==
    [type |-> "Note",
     uri |-> LocalNoteUri(row.id),
     author |-> getUri(row.authorId),
     visibility |-> row.visibility,
     content |-> row.content,
     mentions |-> MentionUris(row.mentions),
     replies_to |-> IF row.replyId = 0 THEN NoUri
                    ELSE LocalNoteUri(row.replyId),
     quotes |-> IF row.quotingId = 0 THEN NoUri
                ELSE LocalNoteUri(row.quotingId)]

\* What this server answers to a GET of the uri of one of its objects: the
\* entity of the row, or an error (no such row; or, under "noself", a
\* server that does not serve the note)
OwnObject(d, uri, net) ==
    IF net # "noself" /\ uri.v = "note" /\ \E n \in d.Notes : n.id = uri.n
    THEN NoteToLysand(CHOOSE n \in d.Notes : n.id = uri.n)
    ELSE [type |-> "Error"]

\* The JSON a GET of a remote uri answers with under net: under
\* "malformed_note" the origins serve notes that list among their mentions
\* a string that is no URI.
ServedUnder(uri, net) ==
    IF net = "malformed_note" /\ Served(uri).type = "Note"
    THEN [Served(uri) EXCEPT !.mentions = @ \o <<NoUri>>]
    ELSE Served(uri)

\* await fetch(uri) and response.json()
Fetched(d, uri, net) ==
    IF uri.t = "local" THEN OwnObject(d, uri, net) ELSE ServedUnder(uri, net)

\* a lookup that misses every stored row
FoundStatus_Miss(d, uri, providedNote) == {}

\* const foundStatus = await Note.fromSql(
\*     eq(Notes.uri, uri ?? providedNote?.uri ?? ""))
FoundStatus(d, uri, providedNote) ==
    NotesWithUri(d, IF uri # NoUri THEN uri ELSE providedNote.uri)

RECURSIVE NoteResolve(_, _, _, _)
RECURSIVE NoteSaveFromRemote(_, _, _, _)

\* Note.saveFromRemote
NoteSaveFromRemote(d, uri, providedNote, net) ==
    IF uri = NoUri /\ providedNote.type = "none" THEN Ret(d, "throw", 0)
    ELSE
    LET foundStatus == FoundStatus(d, uri, providedNote)
        d0 == IF uri # NoUri THEN Ev(d, "fetch", uri) ELSE d
    IN
    IF uri # NoUri /\ net = "down" THEN Ret(d0, "throw", 0)
    ELSE
    LET note == IF uri # NoUri THEN Fetched(d, uri, net) ELSE providedNote IN
    IF note.type # "Note" THEN Ret(d0, "throw", 0)
    ELSE IF note.author = NoUri THEN Ret(d0, "throw", 0)
    ELSE
    One({
    IF author.st # "ok" THEN Ret(author.db, "throw", 0)
    ELSE
    One({
    IF ms.threw THEN Ret(ms.db, "throw", 0)
    ELSE
    One({
    IF reply.st = "throw" THEN Ret(reply.db, "throw", 0)
    ELSE
    One({
    IF quote.st = "throw" THEN Ret(quote.db, "throw", 0)
    ELSE IF foundStatus # {}
         THEN NoteUpdateFromData(quote.db, FirstById(foundStatus), note,
                                 ms.ids, reply.id, quote.id)
         ELSE NoteFromData(quote.db, author.id, note, ms.ids, reply.id,
                           quote.id)
    : quote \in {IF note.quotes = NoUri THEN Ret(reply.db, "null", 0)
                 ELSE NoteResolve(reply.db, note.quotes, NoNote, net)}})
    : reply \in {IF note.replies_to = NoUri THEN Ret(ms.db, "null", 0)
                 ELSE NoteResolve(ms.db, note.replies_to, NoNote, net)}})
    : ms \in {ResolveMentions(author.db, note.mentions, net)}})
    : author \in {UserResolve(d0, note.author, net)}})

\* Note.resolve
NoteResolve(d, uri, providedNote, net) ==
    IF NotesWithUri(d, uri) # {}
    THEN Ret(Ev(d, "hit", uri), "ok", FirstById(NotesWithUri(d, uri)).id)
    ELSE IF uri.t = "local"
         THEN IF uri.v = "nouuid" THEN Ret(d, "throw", 0)
              ELSE NoteFromId(d, uri.n)
         ELSE NoteSaveFromRemote(d, uri, providedNote, net)

\* a deletion that removes the row and nothing else
NoteDelete_RowOnly(d, id) == [d EXCEPT !.Notes = {m \in @ : m.id # id}]

\* Note.delete
NoteDelete(d, id) == CascadeNote(d, id)

\* Note.updateFromRemote: `!this.isRemote()` negates a Promise and is never
\* true; what is fetched is this.getURI(), the uri of the row's id under
\* base_url
NoteUpdateFromRemote(d, id, net) ==
    One({IF updated.st = "null" THEN Ret(updated.db, "throw", 0) ELSE updated :
            updated \in {NoteSaveFromRemote(d, LocalNoteUri(id), NoNote,
                                            net)}})

---------------------------------------------------------------------------
(* The inbox route: server/api/users/:uuid/inbox *)

IPs == {"ip1", "ip2"}

Out(d, code, msg) == [db |-> d, resp |-> [code |-> code, msg |-> msg]]

\* getRelationshipToOtherUser(owner, subject): the row of the pair, created
\* with every flag false when the pair has none
NewRelationship(o, s) ==
    [ownerId |-> o, subjectId |-> s, following |-> FALSE, requested |-> FALSE]

getRelationshipToOtherUser(d, o, s) ==
    LET found == {r \in d.Relationships : r.ownerId = o /\ r.subjectId = s}
    IN IF found # {} THEN [db |-> d, row |-> CHOOSE r \in found : TRUE]
       ELSE [db |-> [d EXCEPT !.Relationships = @ \cup {NewRelationship(o, s)}],
             row |-> NewRelationship(o, s)]

\* an update that never clears requested
SetRelationship_RequestedStays(d, row, following, requested) ==
    [d EXCEPT !.Relationships =
        (@ \ {row}) \cup {[row EXCEPT !.following = following,
                                      !.requested = @ \/ requested]}]

\* an update that writes nothing
SetRelationship_Keep(d, row, following, requested) == d

\* db.update(Relationships).set(...).where(eq(Relationships.id, row.id))
SetRelationship(d, row, following, requested) ==
    [d EXCEPT !.Relationships =
        (@ \ {row}) \cup {[row EXCEPT !.following = following,
                                      !.requested = requested]}]

\* sendFollowAccept: one delivery to the follower's inbox
sendFollowAccept(d, follower, followee) ==
    Ev(d, "deliver", getUri(follower))

\* note: async (note) => ...
HandleNote(d, user, r) ==
    LET account == UserResolve(d, r.note.author, r.net) IN
    IF account.st = "throw"
    THEN Out(account.db, 500, "Failed to process request")
    ELSE IF account.st = "null" THEN Out(account.db, 404, "Author not found")
    ELSE LET newStatus == NoteResolve(account.db, NoUri, r.note, r.net) IN
         IF newStatus.st # "ok"
         THEN Out(newStatus.db, 500, "Failed to add status")
         ELSE Out(newStatus.db, 201, "Note created")

\* a check that never finds the follower following
AlreadyFollowing_Never(row) == FALSE

\* if (foundRelationship.following) return response("Already following")
AlreadyFollowing(row) == row.following

\* follow: async (follow) => ...
HandleFollow(d, user, r) ==
    LET account == UserResolve(d, r.arg, r.net) IN
    IF account.st = "throw"
    THEN Out(account.db, 500, "Failed to process request")
    ELSE IF account.st = "null" THEN Out(account.db, 400, "Author not found")
    ELSE
    LET found == getRelationshipToOtherUser(account.db, account.id, user) IN
    IF AlreadyFollowing(found.row)
    THEN Out(found.db, 200, "Already following")
    ELSE
    LET d1 == SetRelationship(found.db, found.row,
                              ~isLocked(user), isLocked(user))
        d2 == [d1 EXCEPT !.Notifications = @ (+) SetToBag({
                  [accountId |-> account.id, notifiedId |-> user,
                   type |-> IF isLocked(user) THEN "follow_request"
                            ELSE "follow",
                   noteId |-> 0]})]
        d3 == IF ~isLocked(user) THEN sendFollowAccept(d2, account.id, user)
              ELSE d2
    IN Out(d3, 200, "Follow request sent")

\* a check that finds every relationship pending
NoPendingRequest_Never(row) == FALSE

\* if (!foundRelationship.requested) return response("There is no ...")
NoPendingRequest(row) == ~row.requested

\* followAccept: async (followAccept) => ...
HandleFollowAccept(d, user, r) ==
    LET account == UserResolve(d, r.arg, r.net) IN
    IF account.st = "throw"
    THEN Out(account.db, 500, "Failed to process request")
    ELSE IF account.st = "null" THEN Out(account.db, 400, "Author not found")
    ELSE
    LET found == getRelationshipToOtherUser(account.db, user, account.id) IN
    IF NoPendingRequest(found.row)
    THEN Out(found.db, 200, "There is no follow request to accept")
    ELSE Out(SetRelationship(found.db, found.row, TRUE, FALSE),
             200, "Follow request accepted")

\* followReject: async (followReject) => ...
HandleFollowReject(d, user, r) ==
    LET account == UserResolve(d, r.arg, r.net) IN
    IF account.st = "throw"
    THEN Out(account.db, 500, "Failed to process request")
    ELSE IF account.st = "null" THEN Out(account.db, 400, "Author not found")
    ELSE
    LET found == getRelationshipToOtherUser(account.db, user, account.id) IN
    IF NoPendingRequest(found.row)
    THEN Out(found.db, 200, "There is no follow request to reject")
    ELSE Out(SetRelationship(found.db, found.row, FALSE, FALSE),
             200, "Follow request rejected")

\* Note.fromSql(eq(Notes.uri, uri), eq(Notes.authorId, user.id)): the second
\* argument of fromSql is its orderBy, so the author condition orders the
\* rows (false before true) and filters nothing
NoteFromSqlUriAuthor(d, uri, user) ==
    LET rows == NotesWithUri(d, uri)
        first == IF \E n \in rows : n.authorId # user
                 THEN {n \in rows : n.authorId # user} ELSE rows
    IN first

\* undo: async (undo) => ...
HandleUndo(d, user, r) ==
    LET note == NoteFromSqlUriAuthor(d, r.arg, user) IN
    IF note # {}
    THEN Out(NoteDelete(d, (CHOOSE n \in note : TRUE).id), 200, "Note deleted")
    ELSE
    LET otherUser == UserResolve(d, r.arg, r.net) IN
    IF otherUser.st = "throw"
    THEN Out(otherUser.db, 500, "Failed to process request")
    ELSE IF otherUser.st = "ok"
         THEN IF otherUser.id = user
              THEN Out(UserDelete(otherUser.db, user), 200, "Account deleted")
              ELSE Out(otherUser.db, 400,
                       "Cannot delete other users than self")
         ELSE Out(otherUser.db, 400, "Deletion of object not implemented")

\* user: async (user) => ...
HandleUser(d, user, r) ==
    LET updatedAccount == UserSaveFromRemote(d, r.arg, r.net) IN
    IF updatedAccount.st = "throw"
    THEN Out(updatedAccount.db, 500, "Failed to process request")
    ELSE Out(updatedAccount.db, 200, "User refreshed")

\* patch: async (patch) => ...
HandlePatch(d, user, r) ==
    LET note == NoteFromSqlUriAuthor(d, r.arg, user) IN
    IF note = {} THEN Out(d, 404, "Note not found")
    ELSE One({IF updated.st = "throw"
              THEN Out(updated.db, 500, "Failed to process request")
              ELSE Out(updated.db, 200, "Note updated") :
                 updated \in {NoteUpdateFromRemote(
                                 d, (CHOOSE n \in note : TRUE).id, r.net)}})

\* a fallthrough that reports a failure of the server
NoCallback_ServerError(d) == Out(d, 500, "Failed to process request")

\* No callback of parseBody ran and it returned nothing:
\* if (result) return result;
\* return errorResponse("Object has not been implemented", 400)
NoCallback(d) == Out(d, 400, "Object has not been implemented")

\* handler.parseBody({...}) inside the route's try/catch
Dispatch(d, user, r) ==
    CASE r.kind = "Note" -> HandleNote(d, user, r)
      [] r.kind = "Follow" -> HandleFollow(d, user, r)
      [] r.kind = "FollowAccept" -> HandleFollowAccept(d, user, r)
      [] r.kind = "FollowReject" -> HandleFollowReject(d, user, r)
      [] r.kind = "Undo" -> HandleUndo(d, user, r)
      [] r.kind = "User" -> HandleUser(d, user, r)
      [] r.kind = "Patch" -> HandlePatch(d, user, r)
      [] OTHER -> NoCallback(d)

\* a bridge block that lets a request without a source address go on to the
\* signature check
BridgeCheck_IgnoresAddress(c, r) ==
    IF c.bridge /\ r.token # "none"
    THEN IF r.token # "good" THEN "401"
         ELSE IF r.ip # "none" /\ c.allowed_ips # {} THEN "skip" ELSE "check"
    ELSE "check"

\* let checkSignature = true; if (config.federation.bridge.enabled) {...}
\* "check", "skip", or the error response the block returns
BridgeCheck(c, r) ==
    IF c.bridge /\ r.token # "none"
    THEN IF r.token # "good" THEN "401"
         ELSE IF r.ip # "none"
              THEN IF c.allowed_ips # {} \/ r.ip \in c.allowed_ips
                   THEN "skip" ELSE "check"
              ELSE "500"
    ELSE "check"

\* validator.validate(request): the Signature verifies against the sender's
\* stored public key exactly when the sender's own key made it
SignatureValid(sender, r) == r.signedBy = sender

\* if (checkSignature) {...}: "pass" or the error response
VerifySignature(d, r) ==
    LET sender == UserResolve(Ev(d, "sigcheck", r.keyId), r.keyId, r.net) IN
    IF sender.st = "throw" THEN Out(sender.db, 500, "Internal Server Error")
    ELSE IF sender.st = "null"
         THEN Out(sender.db, 400, "Could not resolve keyId")
         ELSE IF ~SignatureValid(sender.id, r)
              THEN Out(sender.db, 400, "Invalid signature")
              ELSE Out(sender.db, 0, "pass")

\* a block-list that matches no origin
OriginBlocked_Never(r) == FALSE

\* config.federation.blocked.find((blocked) =>
\*     blocked.includes(origin) || origin.includes(blocked))
OriginBlocked(r) == r.origin = "blocked"

\* the route handler
Inbox(d, c, r) ==
    IF OriginBlocked(r) THEN Out(d, 201, "")
    ELSE IF UserFromId(d, r.uuid).st # "ok" THEN Out(d, 404, "User not found")
    ELSE
    LET bridge == BridgeCheck(c, r) IN
    IF bridge = "401" THEN Out(d, 401, "An invalid token was passed")
    ELSE IF bridge = "500"
         THEN Out(d, 500, "Request IP address is not available")
    ELSE
    One({IF sig.resp.code # 0 THEN sig ELSE Dispatch(sig.db, r.uuid, r) :
            sig \in {IF bridge = "check" THEN VerifySignature(d, r)
                     ELSE Out(d, 0, "pass")}})

---------------------------------------------------------------------------
(* Requests and the specification of the inbox under signature checking *)

MaxNoteId == 2

MaxNotifications == 3

\* A request as the route sees it; net is not part of it but the state of
\* the network while it is handled ("ok", or "down": every fetch rejects).
Request(uuid, origin, token, ip, keyId, signedBy, net, kind, arg, note) ==
    [net |-> net, note |-> note, arg |-> arg, kind |-> kind,
     token |-> token, ip |-> ip, signedBy |-> signedBy, keyId |-> keyId,
     origin |-> origin, uuid |-> uuid]

NoRequest ==
    Request("", "", "", "", NoUri, "", "", "none", NoUri, NoNote)

NoResponse == [code |-> 0, msg |-> ""]

NoCtx == [q |-> "", ancestors |-> << >>, descendants |-> << >>,
          viewable |-> ""]

NoRace == [kind |-> "", rows |-> << >>, proc |-> << >>]

\* a request that carries a valid Signature of actor s
Signed(s, uuid, net, kind, arg, note) ==
    Request(uuid, "ok", "none", "none", getUri(s), s, net, kind, arg, note)

\* the payloads peers send: what they serve, or an edited N1
EditedNote == [ServedNote("N1") EXCEPT !.content = "c2"]

InboundNotes == {ServedNote(nm) : nm \in RemoteNoteNames} \cup {EditedNote}

UndoObjects ==
    {RemoteUri(nm) : nm \in RemoteNoteNames}
        \cup {getUri(a) : a \in {"L1", "R1", "R2"}}

Addressed == {"L1", "R1", "R2"}

Nets == {"ok", "down"}

BridgeOff == [bridge |-> FALSE, allowed_ips |-> {}]

InitDb == [EmptyDb EXCEPT !.Users = LocalActors]

Init ==
    /\ db = InitDb
    /\ cfg = BridgeOff
    /\ req = NoRequest
    /\ resp = NoResponse
    /\ ctx = NoCtx
    /\ race = NoRace

\* one POST /users/:uuid/inbox, handled to its response; shown is what is
\* kept of the request
DeliverAs(r, shown) ==
    \E out \in {Inbox(Store(db), cfg, r)} :
    /\ out.db.nextId <= MaxNoteId + 1
    /\ BagCardinality(out.db.Notifications) <= MaxNotifications
    /\ db' = out.db
    /\ req' = shown
    /\ resp' = out.resp
    /\ UNCHANGED <<cfg, ctx, race>>

Deliver(r) == DeliverAs(r, [r EXCEPT !.net = ""])

RecvNote ==
    \E s \in RemoteActors, u \in Addressed, net \in Nets, n \in InboundNotes :
        Deliver(Signed(s, u, net, "Note", NoUri, n))

RecvUndo ==
    \E s \in RemoteActors, u \in Addressed, net \in Nets, o \in UndoObjects :
        Deliver(Signed(s, u, net, "Undo", o, NoNote))

\* Note.resolve(uri) on behalf of a local caller
ResolveNote ==
    \E nm \in RemoteNoteNames, net \in Nets :
        LET out == NoteResolve(Store(db), RemoteUri(nm), NoNote, net) IN
        /\ out.db.nextId <= MaxNoteId + 1
        /\ db' = out.db
        /\ req' = [NoRequest EXCEPT !.kind = "Resolve", !.arg = RemoteUri(nm)]
        /\ resp' = [code |-> IF out.st = "ok" THEN 200 ELSE 500,
                    msg |-> out.st]
        /\ UNCHANGED <<cfg, ctx, race>>

Next == RecvNote \/ RecvUndo \/ ResolveNote

Spec == Init /\ [][Next]_vars

---------------------------------------------------------------------------
(* Claims checked under Spec *)

InboxKinds ==
    {"Note", "Follow", "FollowAccept", "FollowReject", "Undo", "User", "Patch"}

Logged(d, e, uri) == [e |-> e, uri |-> uri] \in d.log

\* the handlers ran: the request was not answered by the checks before them
Dispatched(rp) ==
    rp.msg \notin {"User not found", "Internal Server Error",
                   "Could not resolve keyId", "Invalid signature"}

RowsOfUri(d, uri) == {n \in d.Notes : n.uri = uri}

\* the Signature of request r was checked and is a valid signature of a
AuthenticatedAs(d, r, a) ==
    /\ Logged(d, "sigcheck", getUri(a))
    /\ r.keyId = getUri(a)
    /\ r.signedBy = a

\* C1: an Undo whose object is the uri of a stored note that the addressed
\* actor did not author is answered with an error, and the note row is
\* still there afterwards.
C1_UndoOfForeignNoteRejected ==
    [][\A n \in db.Notes :
          (req'.kind = "Undo" /\ req'.arg = n.uri /\ n.authorId # req'.uuid)
              => (resp'.code >= 400 /\ n \in db'.Notes)]_vars

\* C2: an inbox request deletes an Actor row or a Note row only when it is
\* authenticated as coming from the owner of that row.
C2_DeletedOnlyByOwner ==
    [][req'.kind \in InboxKinds =>
          /\ \A a \in db.Users \ db'.Users : AuthenticatedAs(db', req', a)
          /\ \A n \in db.Notes :
                (\A m \in db'.Notes : m.id # n.id)
                    => AuthenticatedAs(db', req', n.authorId)]_vars

\* the uri a step resolves a note for: the payload's uri of an inbox Note,
\* the uri of a Note.resolve(uri)
ResolvedUri(r) ==
    IF r.kind = "Note" THEN r.note.uri
    ELSE IF r.kind = "Resolve" THEN r.arg ELSE NoUri

ResolveSucceeded(r, rp) ==
    \/ r.kind = "Note" /\ rp.code = 201
    \/ r.kind = "Resolve" /\ rp.code = 200

\* C5 as stated: a resolution of a note whose uri is already stored (the
\* second of two in sequence) leaves one row with that uri and updates it.
C5_SecondResolveUpdates ==
    [][(ResolveSucceeded(req', resp') /\ RowsOfUri(db, ResolvedUri(req')) # {})
          => /\ Cardinality(RowsOfUri(db', ResolvedUri(req'))) = 1
             /\ Logged(db', "update", ResolvedUri(req'))]_vars

\* C5, amended: every successful resolution of a note uri leaves exactly
\* one row with that uri.  The first one inserts it.  A later one never
\* inserts: given the payload it updates that row in place; given the uri
\* alone it is a cache hit that returns the stored row without fetching or
\* updating it.
C5_ResolveTwiceOneRow ==
    [][ResolveSucceeded(req', resp') =>
          LET uri == ResolvedUri(req')
              before == RowsOfUri(db, uri)
              after == RowsOfUri(db', uri)
          IN /\ Cardinality(after) = 1
             /\ before = {} => Logged(db', "insert", uri)
             /\ before # {} =>
                  /\ ~Logged(db', "insert", uri)
                  /\ {n.id : n \in after} = {n.id : n \in before}
                  /\ req'.kind = "Note" => Logged(db', "update", uri)
                  /\ req'.kind = "Resolve" =>
                        /\ Logged(db', "hit", uri)
                        /\ ~Logged(db', "fetch", uri)
                        /\ after = before]_vars

\* a second resolution has happened: by payload (an update) ...
C5_Witness ==
    /\ req.kind = "Note"
    /\ resp.code = 201
    /\ Logged(db, "update", req.note.uri)
    /\ Cardinality(RowsOfUri(db, req.note.uri)) = 1

\* ... and by uri (a cache hit)
C5_WitnessByUri ==
    /\ req.kind = "Resolve"
    /\ resp.code = 200
    /\ Logged(db, "hit", req.arg)

---------------------------------------------------------------------------
(* The inbox under every bridge configuration: who gets past verification *)

BridgeConfigs == [bridge : BOOLEAN, allowed_ips : {{}, {"ip1"}}]

InitAuth ==
    /\ db = InitDb
    /\ cfg \in BridgeConfigs
    /\ req = NoRequest
    /\ resp = NoResponse
    /\ ctx = NoCtx
    /\ race = NoRace

\* a Follow sent to L1 in the name of R1, with or without the bridge token,
\* from any address, carrying a Signature made with the key of signedBy
\* under the keyId of another or the same actor
RecvFollowAny ==
    \E token \in {"none", "good", "bad"}, ip \in IPs \cup {"none"},
       k \in RemoteActors, s \in RemoteActors, net \in Nets :
        Deliver(Request("L1", "ok", token, ip, getUri(k), s, net,
                        "Follow", getUri("R1"), NoNote))

\* a request from a blocked origin: a Note, or an Undo of the addressed
\* actor's account, to a stored or an unknown actor, with or without the
\* bridge token, its Signature valid or not
RecvBlocked ==
    \E token \in {"none", "good", "bad"}, s \in RemoteActors,
       u \in {"L1", "R2"}, k \in {"Note", "Undo"} :
        Deliver(Request(u, "blocked", token, "ip1", getUri("R1"), s, "ok",
                        k, IF k = "Undo" THEN getUri(u) ELSE NoUri,
                        IF k = "Note" THEN ServedNote("N1") ELSE NoNote))

NextAuth == RecvFollowAny \/ RecvBlocked

SpecAuth == InitAuth /\ [][NextAuth]_vars

\* the keyId of the request resolved to a stored actor whose key did not
\* make the Signature
SignatureRefused(d, r) ==
    /\ Logged(d, "sigcheck", r.keyId)
    /\ r.keyId.v \in d.Users
    /\ ~SignatureValid(r.keyId.v, r)

\* C3: when the keyId resolves to an actor and the signature does not
\* validate against that actor's key, the answer is an authentication
\* failure and the store is as it was before the request.
C3_BadSignatureTouchesNothing ==
    [][(req'.kind \in InboxKinds /\ SignatureRefused(db', req'))
          => /\ resp'.code \in {400, 401}
             /\ Store(db') = Store(db)]_vars

\* C22: when the signer named by keyId cannot be resolved (its fetch fails,
\* or it is an id unknown to this server), the request is answered with an
\* authentication error (4xx) and no handler runs: the store is unchanged.
C22_UnresolvableSignerIsAuthError ==
    [][(/\ req'.kind \in InboxKinds
        /\ Logged(db', "sigcheck", req'.keyId)
        /\ req'.keyId.v \notin db'.Users)
          => /\ resp'.code \in 400..499
             /\ Store(db') = Store(db)]_vars

\* the answer of the route to a Signature that does not validate
InvalidSignatureResponse == [code |-> 400, msg |-> "Invalid signature"]

\* C23: with the bridge enabled and an allow-list configured, a request
\* that presents the bridge token while its source address is unavailable
\* is answered with a server failure, which differs in status and message
\* from the answer to an invalid signature, and neither the signature check
\* nor a handler runs: nothing is resolved and the store is unchanged.
C23_NoAddressIsHardFailure ==
    [][(/\ req'.kind \in InboxKinds
        /\ req'.origin = "ok"
        /\ req'.uuid \in db.Users
        /\ cfg.bridge /\ cfg.allowed_ips # {}
        /\ req'.token = "good"
        /\ req'.ip = "none")
          => /\ resp'.code >= 500
             /\ resp'.code # InvalidSignatureResponse.code
             /\ resp'.msg # InvalidSignatureResponse.msg
             /\ db'.log = {}
             /\ Store(db') = Store(db)]_vars

\* a validly signed Follow with the bridge token and no source address has
\* been refused by a server that knows R1 from an earlier Follow
C23_Witness ==
    /\ "R1" \in db.Users
    /\ cfg.bridge /\ cfg.allowed_ips # {}
    /\ req.token = "good" /\ req.ip = "none"
    /\ req.signedBy = req.keyId.v
    /\ resp = [code |-> 500, msg |-> "Request IP address is not available"]
    /\ db.log = {}

\* C4: with the bridge enabled and the correct token presented from a known
\* address, the signature check is skipped exactly when the address is in
\* the allow-list; outside the list a request without a valid Signature is
\* rejected.
C4_BypassOnlyFromAllowList ==
    [][(req'.kind \in InboxKinds /\ req'.origin = "ok" /\ cfg.bridge
            /\ req'.token = "good" /\ req'.ip # "none")
          => /\ ~Logged(db', "sigcheck", req'.keyId)
                    <=> req'.ip \in cfg.allowed_ips
             /\ (req'.ip \notin cfg.allowed_ips
                    /\ ~SignatureValid(req'.keyId.v, req'))
                  => resp'.code >= 400]_vars

\* C19: a request whose Origin matches the block-list gets a success
\* response and is not processed at all: no signer or author is resolved,
\* no fetch is made and the store is unchanged, whatever the body, the
\* signature and the token.
C19_BlockedOriginNotProcessed ==
    [][(req'.kind \in InboxKinds /\ req'.origin = "blocked")
          => /\ resp'.code \in 200..299
             /\ db' = Store(db)]_vars

\* an Undo of L1's own account from a blocked origin, under the bridge and
\* with a Signature that R1's key did not make, has been answered by a
\* server that knows R1 from an earlier Follow
C19_Witness ==
    /\ "R1" \in db.Users
    /\ req.origin = "blocked"
    /\ req.kind = "Undo"
    /\ req.uuid = "L1"
    /\ req.signedBy # req.keyId.v
    /\ cfg.bridge
    /\ resp.code = 201
    /\ "L1" \in db.Users
    /\ db.log = {}

---------------------------------------------------------------------------
(* Follow, FollowAccept, FollowReject and the local authorize route *)

\* checkForBidirectionalRelationships(user, account): both rows of the pair
\* exist afterwards
checkForBidirectionalRelationships(d, user, account) ==
    getRelationshipToOtherUser(
        getRelationshipToOtherUser(d, user, account).db, account, user).db

\* POST /api/v1/follow_requests/:account_id/authorize by the local user
Authorize(d, user, account_id) ==
    IF UserFromId(d, account_id).st # "ok"
    THEN Out(d, 404, "Account not found")
    ELSE
    LET d1 == checkForBidirectionalRelationships(d, user, account_id)
        d2 == [d1 EXCEPT !.Relationships =
                  {IF r.subjectId = user /\ r.ownerId = account_id
                   THEN [r EXCEPT !.requested = FALSE, !.following = TRUE]
                   ELSE r : r \in @}]
        d3 == IF ~isLocal(account_id)
              THEN sendFollowAccept(d2, account_id, user) ELSE d2
    IN Out(d3, 200, "relationship")

RecvFollow ==
    \E s \in RemoteActors, u \in LocalActors, net \in Nets :
        Deliver(Signed(s, u, net, "Follow", getUri(s), NoNote))

RecvFollowAccept ==
    \E net \in Nets :
        Deliver(Signed("L2", "R1", net, "FollowAccept", getUri("L2"), NoNote))

RecvFollowReject ==
    \E net \in Nets :
        Deliver(Signed("L2", "R1", net, "FollowReject", getUri("L2"), NoNote))

AuthorizeFollowRequest ==
    \E user \in LocalActors :
        LET out == Authorize(Store(db), user, "R1") IN
        /\ db' = out.db
        /\ req' = [NoRequest EXCEPT !.kind = "Authorize", !.uuid = user,
                                    !.arg = getUri("R1")]
        /\ resp' = out.resp
        /\ UNCHANGED <<cfg, ctx, race>>

NextFollow ==
    RecvFollow \/ RecvFollowAccept \/ RecvFollowReject
        \/ AuthorizeFollowRequest

SpecFollow == Init /\ [][NextFollow]_vars

IsFollow(r, a, u) == r.kind = "Follow" /\ r.arg = getUri(a) /\ r.uuid = u

Following(d, a, u) ==
    \E r \in d.Relationships :
        r.ownerId = a /\ r.subjectId = u /\ r.following

FollowNotifications(d, a, u) ==
    CopiesIn([accountId |-> a, notifiedId |-> u, type |-> "follow",
              noteId |-> 0], d.Notifications)

\* C7: two consecutive Follow activities from remote actor a to unlocked
\* local actor u, the first of which made the follow: afterwards a follows
\* u, exactly one Notification row exists for that follow, and the second
\* Follow is answered with success and changes nothing in the store.
C7_SecondFollowIsNoOp ==
    [][\A a \in RemoteActors, u \in LocalActors :
          (/\ ~isLocked(u)
           /\ IsFollow(req, a, u) /\ resp.msg = "Follow request sent"
           /\ IsFollow(req', a, u))
          => /\ resp'.code = 200
             /\ Store(db') = Store(db)
             /\ Following(db', a, u)
             /\ FollowNotifications(db', a, u) = 1]_vars

\* the second of two consecutive Follows has been answered
C7_Witness ==
    \E a \in RemoteActors, u \in LocalActors :
        /\ ~isLocked(u)
        /\ IsFollow(req, a, u)
        /\ resp.msg = "Already following"
        /\ Following(db, a, u)
        /\ FollowNotifications(db, a, u) = 1

\* the flags of the relationship of owner o towards subject s; a pair
\* without a row has none set
Flags(d, o, s) ==
    IF \E r \in d.Relationships : r.ownerId = o /\ r.subjectId = s
    THEN LET row == CHOOSE r \in d.Relationships :
                        r.ownerId = o /\ r.subjectId = s
         IN [following |-> row.following, requested |-> row.requested]
    ELSE [following |-> FALSE, requested |-> FALSE]

OtherRows(d, o, s) ==
    {r \in d.Relationships : ~(r.ownerId = o /\ r.subjectId = s)}

IsReply(r) == r.kind \in {"FollowAccept", "FollowReject"}

FollowNotification(a, u) ==
    [accountId |-> a, notifiedId |-> u,
     type |-> IF isLocked(u) THEN "follow_request" ELSE "follow",
     noteId |-> 0]

\* C16: a handled Follow from an actor who is not yet following the
\* addressed actor sets the relationship to following = not locked and
\* requested = locked, creates one notification, and sends a follow-accept
\* to the follower if and only if the addressed actor is unlocked.
C16_FollowTransition ==
    [][(/\ req'.kind = "Follow"
        /\ resp'.code = 200
        /\ ~Flags(db, req'.arg.v, req'.uuid).following)
          => /\ Flags(db', req'.arg.v, req'.uuid) =
                    [following |-> ~isLocked(req'.uuid),
                     requested |-> isLocked(req'.uuid)]
             /\ db'.Notifications =
                    db.Notifications
                        (+) SetToBag({FollowNotification(req'.arg.v,
                                                         req'.uuid)})
             /\ Logged(db', "deliver", req'.arg) <=> ~isLocked(req'.uuid)]_vars

\* a Follow to the locked actor has left a pending request
C16_Witness ==
    /\ req.kind = "Follow"
    /\ isLocked(req.uuid)
    /\ resp.msg = "Follow request sent"
    /\ Flags(db, req.arg.v, req.uuid) =
           [following |-> FALSE, requested |-> TRUE]
    /\ BagIn(FollowNotification(req.arg.v, req.uuid), db.Notifications)
    /\ ~Logged(db, "deliver", req.arg)

\* a Follow to the unlocked actor has made the follow and sent the accept
C16_WitnessUnlocked ==
    /\ req.kind = "Follow"
    /\ ~isLocked(req.uuid)
    /\ resp.msg = "Follow request sent"
    /\ Logged(db, "deliver", req.arg)

\* C17: in every reachable state, after any sequence of Follow,
\* FollowAccept, FollowReject activities and local follow-request
\* authorizations, no relationship has following and requested both set.
C17_FollowingExcludesRequested ==
    \A r \in db.Relationships : ~(r.following /\ r.requested)

\* a pending request has been turned into a follow, by a FollowAccept or
\* by the authorize route, while another request is still pending
C17_Witness ==
    /\ \/ req.kind = "Authorize" /\ resp.code = 200
       \/ resp.msg = "Follow request accepted"
    /\ \E r \in db.Relationships : r.following /\ ~r.requested
    /\ \E r \in db.Relationships : r.requested /\ ~r.following

---------------------------------------------------------------------------
(* Two requests resolving one uncached remote uri, await by await *)

Procs == {1, 2}

\* the store's uniqueness constraint on the uri column
UniqueUri == TRUE

StartProc == [pc |-> "resolve", found |-> FALSE, res |-> ""]

Done(res) == [pc |-> "done", found |-> FALSE, res |-> res]

InitRace ==
    /\ db = InitDb
    /\ cfg = BridgeOff
    /\ req = NoRequest
    /\ resp = NoResponse
    /\ ctx = NoCtx
    /\ race \in {[kind |-> k, rows |-> 0, proc |-> [p \in Procs |-> StartProc]] :
                    k \in {"user", "note"}}

SetProc(p, v) ==
    /\ race' = [race EXCEPT !.proc[p] = v]
    /\ UNCHANGED <<db, cfg, req, resp, ctx>>

\* User.resolve / Note.resolve: the lookup by uri that returns a stored row
RaceResolve(p) ==
    /\ race.proc[p].pc = "resolve"
    /\ SetProc(p, IF race.rows > 0 THEN Done("row")
                  ELSE [race.proc[p] EXCEPT
                          !.pc = IF race.kind = "note" THEN "find"
                                 ELSE "fetch"])

\* saveFromRemote: foundStatus / foundUser, before the fetch for a note and
\* after it for a user
RaceFind(p) ==
    /\ race.proc[p].pc = "find"
    /\ SetProc(p, [race.proc[p] EXCEPT
                     !.found = race.rows > 0,
                     !.pc = IF race.kind = "note" THEN "fetch" ELSE "write"])

\* saveFromRemote: await fetch(uri)
RaceFetch(p) ==
    /\ race.proc[p].pc = "fetch"
    /\ \E net \in Nets :
          SetProc(p, IF net = "down" THEN Done("fetch_error")
                     ELSE [race.proc[p] EXCEPT !.pc = "deps"])

\* saveFromRemote: the awaits between the fetch and the write
\* (addInstanceIfNotExists and fetchEmoji for a user; User.resolve of the
\* author, attachments and emojis for a note)
RaceDeps(p) ==
    /\ race.proc[p].pc = "deps"
    /\ SetProc(p, [race.proc[p] EXCEPT
                     !.pc = IF race.kind = "note" THEN "write" ELSE "find"])

\* saveFromRemote: update the row found (which ends in an error for a
\* user, whose update throws in toLysand), or insert; the insert of a second
\* row with the uri violates the constraint and the error is thrown on
RaceWrite(p) ==
    /\ race.proc[p].pc = "write"
    /\ UNCHANGED <<db, cfg, req, resp, ctx>>
    /\ IF race.proc[p].found
       THEN race' = [race EXCEPT
                       !.proc[p] = Done(IF race.kind = "note" THEN "row"
                                        ELSE "update_error")]
       ELSE IF UniqueUri /\ race.rows > 0
            THEN race' = [race EXCEPT !.proc[p] = Done("unique_violation")]
            ELSE race' = [race EXCEPT !.rows = @ + 1,
                                      !.proc[p] = Done("row")]

NextRace ==
    \E p \in Procs :
        \/ RaceResolve(p) \/ RaceFind(p) \/ RaceFetch(p)
        \/ RaceDeps(p) \/ RaceWrite(p)

SpecRace == InitRace /\ [][NextRace]_vars

\* C6: when both resolutions have ended, neither has surfaced the
\* uniqueness violation as an error, and if one of them returned a row the
\* store holds exactly one row for the uri.
C6_RaceEndsWithOneRowAndNoError ==
    (\A p \in Procs : race.proc[p].pc = "done")
        => /\ \A p \in Procs : race.proc[p].res # "unique_violation"
           /\ (\E p \in Procs : race.proc[p].res = "row") => race.rows = 1

---------------------------------------------------------------------------
(* Visibility and thread assembly: Note.isViewableByUser, getAncestors,
   getDescendants and the context route *)

MaxDepth == 20

MaxChain == 26

Visibilities == {"public", "unlisted", "private", "direct"}

NoteRow(d, id) == CHOOSE n \in d.Notes : n.id = id

\* The query of the private branch,
\*   db.query.Relationships.findFirst({ where: and(
\*       eq(relationship.ownerId, user.id),
\*       eq(relationship.subjectId, Notes.authorId),
\*       eq(relationship.following, true)) }),
\* compares subjectId with the column Notes.authorId of a table that is not
\* part of the query, and is never given the author of this note.  What the
\* database makes of it is not fixed by the source: the query is rejected,
\* or the condition on the subject constrains nothing, or it matches no row.
PrivateQueryOutcomes == {"throws", "subject_ignored", "no_row"}

PrivateQuery(d, user, q) ==
    IF q = "throws" THEN "throw"
    ELSE IF q = "subject_ignored"
              /\ \E r \in d.Relationships : r.ownerId = user /\ r.following
         THEN "true" ELSE "false"

\* Note.isViewableByUser(user), user = "" being null: what the returned
\* Promise settles to ("true" for a truthy value, "false" for a falsy one,
\* "throw" for a rejection)
isViewableByUser(d, id, user, q) ==
    LET n == NoteRow(d, id) IN
    IF user # "" /\ n.authorId = user THEN "true"
    ELSE IF n.visibility = "public" THEN "true"
    ELSE IF n.visibility = "unlisted" THEN "true"
    ELSE IF n.visibility = "private"
         THEN IF user # "" THEN PrivateQuery(d, user, q) ELSE "false"
         ELSE IF user # "" /\ user \in n.mentions THEN "true" ELSE "false"

\* What a condition sees of an un-awaited call of an async method: the
\* Promise object itself, which is truthy whatever it settles to.
PromiseIsTruthy(settlesTo) == TRUE

\* notes.filter((note) => note.isViewableByUser(fetcher))
FilterViewable(d, ids, fetcher, q) ==
    SelectSeq(ids,
              LAMBDA id : PromiseIsTruthy(isViewableByUser(d, id, fetcher, q)))

RECURSIVE DescendingIds(_)
DescendingIds(S) ==
    IF S = {} THEN << >>
    ELSE LET top == CHOOSE i \in S : \A j \in S : j <= i
         IN <<top>> \o DescendingIds(S \ {top})

\* Note.getReplyChildren: eq(Notes.replyId, id), ordered by desc(Notes.id)
getReplyChildren(d, id) ==
    DescendingIds({n.id : n \in {m \in d.Notes : m.replyId = id}})

RECURSIVE ParentWalk(_, _)
\* the while loop of getAncestors: nearest parent first
ParentWalk(d, id) ==
    LET replyId == NoteRow(d, id).replyId IN
    IF replyId = 0 THEN << >>
    ELSE IF NoteFromId(d, replyId).st # "ok" THEN << >>
         ELSE <<replyId>> \o ParentWalk(d, replyId)

Reverse(s) == [i \in 1..Len(s) |-> s[Len(s) + 1 - i]]

\* getAncestors without the final toReversed()
getAncestors_NotReversed(d, id, fetcher, q) ==
    FilterViewable(d, ParentWalk(d, id), fetcher, q)

\* Note.getAncestors(fetcher)
getAncestors(d, id, fetcher, q) ==
    Reverse(FilterViewable(d, ParentWalk(d, id), fetcher, q))

RECURSIVE getDescendants(_, _, _, _, _)
RECURSIVE ChildLoop(_, _, _, _, _)

\* the for loop of getDescendants over the reply children
ChildLoop(d, children, fetcher, depth, q) ==
    IF children = << >> THEN << >>
    ELSE <<Head(children)>>
            \o (IF depth < MaxDepth
                THEN getDescendants(d, Head(children), fetcher, depth + 1, q)
                ELSE << >>)
            \o ChildLoop(d, Tail(children), fetcher, depth, q)

\* Note.getDescendants(fetcher, depth = 0)
getDescendants(d, id, fetcher, depth, q) ==
    FilterViewable(d, ChildLoop(d, getReplyChildren(d, id), fetcher, depth, q),
                   fetcher, q)

\* a linear reply chain 1 <- 2 <- ... <- k; vis, author, mentions give the
\* columns of each note
ChainNotes(k, vis, author, mentions) ==
    {[id |-> i, uri |-> NoUri, authorId |-> author[i],
      visibility |-> vis[i], content |-> "c1", replyId |-> i - 1,
      quotingId |-> 0, reblogId |-> 0,
      mentions |-> mentions[i]] : i \in 1..k}

FollowRows(S) ==
    {[ownerId |-> "L1", subjectId |-> a, following |-> TRUE,
      requested |-> FALSE] : a \in S}

\* chains of public notes of one author: the short ones, and those whose
\* depth is about the ceiling of getDescendants
LongChains ==
    {[InitDb EXCEPT !.Users = Actors,
                    !.Profiles = {Profile(a, "v1", "v1") : a \in RemoteActors},
                    !.Notes = ChainNotes(k, [i \in 1..k |-> "public"],
                                         [i \in 1..k |-> "R1"],
                                         [i \in 1..k |-> {}]),
                    !.nextId = k + 1] :
        k \in {j \in 1..MaxChain : j <= 3 \/ j > MaxDepth}}

\* chains of three notes of two authors, the first two of any visibility,
\* the second mentioning L1 or nobody, with L1 following any of the authors
MixedChains ==
    {[InitDb EXCEPT !.Users = Actors,
                    !.Profiles = {Profile(a, "v1", "v1") : a \in RemoteActors},
                    !.Notes = ChainNotes(3, <<v[1], v[2], "public">>,
                                         <<"R1", "R2", "R1">>,
                                         <<{}, m, {}>>),
                    !.Relationships = FollowRows(f),
                    !.nextId = 4] :
        v \in [1..2 -> Visibilities], m \in {{}, {"L1"}},
        f \in SUBSET RemoteActors}

Viewers == {"", "L1", "L2", "R1"}

InitThread ==
    /\ \/ /\ db \in LongChains
          /\ ctx = [NoCtx EXCEPT !.q = "no_row"]
       \/ /\ db \in MixedChains
          /\ ctx \in {[NoCtx EXCEPT !.q = q] : q \in PrivateQueryOutcomes}
    /\ cfg = BridgeOff
    /\ req = NoRequest
    /\ resp = NoResponse
    /\ race = NoRace

\* GET /api/v1/statuses/:id/context as user (or anonymous)
GetContext ==
    \E n \in db.Notes, user \in Viewers :
        /\ req' = [NoRequest EXCEPT !.kind = "Context", !.uuid = user,
                                    !.arg = LocalNoteUri(n.id)]
        /\ resp' = [code |-> 200, msg |-> "context"]
        /\ ctx' = [q |-> ctx.q,
                   ancestors |-> getAncestors(db, n.id, user, ctx.q),
                   descendants |-> getDescendants(db, n.id, user, 0, ctx.q),
                   viewable |-> ""]
        /\ UNCHANGED <<db, cfg, race>>

\* await note.isViewableByUser(user)
CheckViewable ==
    \E n \in db.Notes, user \in Viewers :
        /\ req' = [NoRequest EXCEPT !.kind = "IsViewable", !.uuid = user,
                                    !.arg = LocalNoteUri(n.id)]
        /\ resp' = [code |-> 200, msg |-> "viewable"]
        /\ ctx' = [q |-> ctx.q, ancestors |-> << >>, descendants |-> << >>,
                   viewable |-> isViewableByUser(db, n.id, user, ctx.q)]
        /\ UNCHANGED <<db, cfg, race>>

NextThread == GetContext \/ CheckViewable

SpecThread == InitThread /\ [][NextThread]_vars

SeqRange(s) == {s[i] : i \in 1..Len(s)}

\* C8: every note that getAncestors or getDescendants returned to a viewer
\* is one that isViewableByUser grants that viewer.
C8_ThreadOnlyViewable ==
    req.kind = "Context" =>
        \A id \in SeqRange(ctx.ancestors) \cup SeqRange(ctx.descendants) :
            isViewableByUser(db, id, req.uuid, ctx.q) = "true"

\* the visibility rule as the claim states it
ViewableAsStated(d, id, user) ==
    LET n == NoteRow(d, id) IN
    \/ user # "" /\ user = n.authorId
    \/ n.visibility \in {"public", "unlisted"}
    \/ n.visibility = "private" /\ user # "" /\ Following(d, user, n.authorId)
    \/ n.visibility = "direct" /\ user \in n.mentions

\* C9: isViewableByUser(note, viewer) is true exactly when the viewer is the
\* author, or the note is public or unlisted, or it is private and the
\* viewer follows its author, or it is direct and mentions the viewer.
C9_ViewableExactlyAsStated ==
    req.kind = "IsViewable" =>
        (ctx.viewable = "true" <=> ViewableAsStated(db, req.arg.n, req.uuid))

\* the store is a linear chain 1 <- 2 <- ... <- k of public notes
PublicChain(d) ==
    \A n \in d.Notes : n.visibility = "public" /\ n.replyId = n.id - 1

FromTo(a, b) == [i \in 1..(IF b >= a THEN b - a + 1 ELSE 0) |-> a + i - 1]

C11_DescendantsWithinMaxDepth ==
    req.kind = "Context" =>
        /\ Len(ctx.descendants) <= MaxDepth
        /\ \A i \in 1..Len(ctx.descendants) :
               ctx.descendants[i] - req.arg.n <= MaxDepth

---------------------------------------------------------------------------
(* Account deletion by Undo, under Spec *)

\* a Users row of actor a has existed: the local actors are there from the
\* start, a remote one is inserted together with the row of its instance,
\* which is never deleted
WasStored(d, a) == isLocal(a) \/ Host(a) \in d.Instances

\* C12: an Undo whose object is the addressed actor's own account uri
\* deletes that actor's row, and for good: once the row of an actor is
\* deleted no later step brings a row of that actor back, and every later
\* inbox request addressed to the actor is answered 404.
C12_OwnAccountUndoIrreversible ==
    [][/\ (req'.kind = "Undo" /\ req'.arg = getUri(req'.uuid)
              /\ resp'.code = 200) => req'.uuid \notin db'.Users
       /\ \A a \in Actors :
             (a \notin db.Users /\ WasStored(db, a))
                 => /\ a \notin db'.Users
                    /\ (req'.kind \in InboxKinds /\ req'.uuid = a)
                           => resp'.code = 404]_vars

---------------------------------------------------------------------------
(* ActorUpdate: the user handler, with actors stored by earlier Follows *)

ActorNets == {"ok", "new", "down"}

RecvUser ==
    \E s \in RemoteActors, a \in RemoteActors, net \in ActorNets :
        DeliverAs(Signed(s, "L1", net, "User", getUri(a), NoNote),
                  Signed(s, "L1", net, "User", getUri(a), NoNote))

NextActor == RecvFollow \/ RecvUser

SpecActor == Init /\ [][NextActor]_vars

\* the stored columns of actor a are those of the payload served under net
ProfileAsServed(d, a, net) ==
    \A p \in d.Profiles :
        p.id = a => /\ p.displayName = ServedUser(getUri(a), net).display_name
                    /\ p.fields = ServedUser(getUri(a), net).fields

\* C13: an ActorUpdate for an actor that is already stored always fetches
\* the actor from its uri, and when the origin answers the handler completes
\* successfully and the stored mutable fields of the actor are those of the
\* fetched payload.
C13_ActorUpdateRefreshes ==
    [][(/\ req'.kind = "User"
        /\ UserFromUri(db, req'.arg).st = "ok"
        /\ Dispatched(resp'))
          => /\ Logged(db', "fetch", req'.arg)
             /\ req'.net # "down"
                  => /\ resp'.code = 200
                     /\ ProfileAsServed(db', req'.arg.v, req'.net)]_vars

---------------------------------------------------------------------------
(* Patch: the patch handler, on notes stored by earlier deliveries *)

PatchNets == Nets \cup {"noself"}

RecvPatch ==
    \E u \in Addressed, net \in PatchNets, nm \in RemoteNoteNames :
        Deliver(Signed("R1", u, net, "Patch", RemoteUri(nm), NoNote))

\* kinds of body the route has no callback for: an entity of the protocol
\* that is not an activity of the inbox, and a type the protocol lacks
OtherKinds == {"Like", "Bogus"}

RecvOther ==
    \E s \in RemoteActors, u \in Addressed, net \in Nets, k \in OtherKinds :
        DeliverAs(Signed(s, u, net, k, RemoteUri("N1"), NoNote),
                  Signed(s, u, net, k, RemoteUri("N1"), NoNote))

NextPatch == RecvNote \/ RecvPatch \/ RecvOther

SpecPatch == Init /\ [][NextPatch]_vars

\* C14: a Patch is answered with a not-found error and changes nothing in
\* the store whenever the patched note is unknown locally or is stored but
\* authored by someone other than the addressed actor.
C14_PatchOfForeignOrUnknownNote ==
    [][(/\ req'.kind = "Patch"
        /\ Dispatched(resp')
        /\ \A n \in db.Notes : n.uri = req'.arg => n.authorId # req'.uuid)
          => /\ resp'.code = 404
             /\ Store(db') = [Store(db) EXCEPT
                                !.Users = db'.Users,
                                !.Profiles = db'.Profiles,
                                !.EmojiToUser = db'.EmojiToUser,
                                !.Instances = db'.Instances]]_vars

---------------------------------------------------------------------------
(* Bodies of a kind the inbox does not handle, under SpecPatch *)

---------------------------------------------------------------------------
(* Resolution of URIs under the server's own base_url, on stores that *)
(* deliveries of Notes and Patches have filled *)

\* the URIs under base_url a caller may hand to User.resolve: the address
\* of a stored or unknown id, and one without an id
LocalUserUris ==
    {LocalUserUri(a) : a \in Actors \cup {"ghost"}} \cup {UnparsableLocalUri}

\* the same for Note.resolve
LocalNoteUris ==
    {LocalNoteUri(k) : k \in 1..(MaxNoteId + 1)} \cup {UnparsableLocalUri}

\* the outcome of a resolution, kept in the log: the address under base_url
\* of the row that was returned
Returned(out, address) ==
    IF out.st = "ok" THEN Ev(out.db, "returned", address) ELSE out.db

\* User.resolve(uri) of a URI under base_url
ResolveLocalUser ==
    \E uri \in LocalUserUris, net \in Nets :
    \E out \in {UserResolve(Store(db), uri, net)} :
        /\ db' = Returned(out, LocalUserUri(out.id))
        /\ req' = [NoRequest EXCEPT !.kind = "ResolveLocalUser", !.arg = uri]
        /\ resp' = [code |-> IF out.st = "ok" THEN 200 ELSE 500,
                    msg |-> out.st]
        /\ UNCHANGED <<cfg, ctx, race>>

\* Note.resolve(uri) of a URI under base_url
ResolveLocalNote ==
    \E uri \in LocalNoteUris, net \in Nets :
    \E out \in {NoteResolve(Store(db), uri, NoNote, net)} :
        /\ db' = Returned(out, LocalNoteUri(out.id))
        /\ req' = [NoRequest EXCEPT !.kind = "ResolveLocalNote", !.arg = uri]
        /\ resp' = [code |-> IF out.st = "ok" THEN 200 ELSE 500,
                    msg |-> out.st]
        /\ UNCHANGED <<cfg, ctx, race>>

NextLocal == RecvNote \/ RecvPatch \/ ResolveLocalUser \/ ResolveLocalNote

SpecLocal == Init /\ [][NextLocal]_vars

\* the id carried by a URI under base_url is the id of a stored row
IdStored(d, kind, uri) ==
    IF kind = "ResolveLocalUser" THEN uri.v \in d.Users
    ELSE \E n \in d.Notes : n.id = uri.n

\* C20: resolving a URI under the server's own base URL, as an actor or as
\* a note, fetches nothing from the network; it fails when the URI carries
\* no id, returns the row whose id the URI carries when that row is stored,
\* and returns nothing when it is not.
C20_LocalResolveIsLocalLookup ==
    [][req'.kind \in {"ResolveLocalUser", "ResolveLocalNote"}
          => /\ \A e \in db'.log : e.e # "fetch"
             /\ IF req'.arg = UnparsableLocalUri THEN resp'.msg = "throw"
                ELSE IF IdStored(db, req'.kind, req'.arg)
                THEN resp'.msg = "ok" /\ Logged(db', "returned", req'.arg)
                ELSE resp'.msg = "null"]_vars

---------------------------------------------------------------------------
(* Resolution of remote uris on behalf of local callers, call after call *)

\* the states of the network during a resolution: "error_status" is an
\* origin that answers every GET with a non-2xx status and the entity as
\* its body; fetch resolves with such a response, and response.ok and
\* response.status are read nowhere
FetchNets ==
    ActorNets \cup {"error_status", "malformed_note", "malformed_user"}

\* User.resolve(uri) of the uri of a remote actor
ResolveUser ==
    \E a \in RemoteActors, net \in FetchNets :
    \E out \in {UserResolve(Store(db), RemoteUri(a), net)} :
        /\ db' = out.db
        /\ req' = [NoRequest EXCEPT !.kind = "ResolveUser",
                                    !.arg = RemoteUri(a), !.net = net]
        /\ resp' = [code |-> IF out.st = "ok" THEN 200 ELSE 500,
                    msg |-> out.st]
        /\ UNCHANGED <<cfg, ctx, race>>

\* Note.resolve(uri) of the uri of a remote note
ResolveRemoteNote ==
    \E nm \in RemoteNoteNames, net \in FetchNets :
    \E out \in {NoteResolve(Store(db), RemoteUri(nm), NoNote, net)} :
        /\ out.db.nextId <= MaxNoteId + 1
        /\ db' = out.db
        /\ req' = [NoRequest EXCEPT !.kind = "Resolve",
                                    !.arg = RemoteUri(nm), !.net = net]
        /\ resp' = [code |-> IF out.st = "ok" THEN 200 ELSE 500,
                    msg |-> out.st]
        /\ UNCHANGED <<cfg, ctx, race>>

NextResolve == RecvNote \/ ResolveRemoteNote \/ ResolveUser

SpecResolve == Init /\ [][NextResolve]_vars

\* a row is stored under the uri a resolution is asked for
StoredUnder(d, r) ==
    IF r.kind = "ResolveUser" THEN r.arg.v \in d.Users
    ELSE RowsOfUri(d, r.arg) # {}

\* C21: once a row is stored under a remote uri, every later resolve call
\* for that uri (of an actor or of a note) returns the stored row, fetches
\* nothing from the uri and writes nothing to the store; so a sequence of
\* resolve calls fetches the uri at most once after it first succeeded.
C21_FetchOnce ==
    [][(req'.kind \in {"Resolve", "ResolveUser"} /\ StoredUnder(db, req'))
          => /\ resp'.code = 200
             /\ ~Logged(db', "fetch", req'.arg)
             /\ Store(db') = Store(db)]_vars

\* a stored actor has been resolved again while its origin was down or
\* served an edited profile
C21_Witness ==
    /\ req.kind = "ResolveUser"
    /\ resp.code = 200
    /\ req.arg.v \in db.Users
    /\ \A e \in db.log : e.e # "fetch"
    /\ \E p \in db.Profiles : p.id = req.arg.v /\ p.displayName = "v2"

\* the fetch a resolution made got no response, or one of a non-2xx status
FetchFailed(d, r) ==
    /\ r.kind \in {"Resolve", "ResolveUser"}
    /\ Logged(d, "fetch", r.arg)
    /\ r.net \in {"down", "error_status"}

\* C24: when the fetch made by the resolution of an actor or of a note
\* fails at the network level or is answered with a non-2xx status, the
\* resolution fails towards its caller and the store is left as it was:
\* no row is created or updated from the body of the response.
C24_FailedFetchWritesNothing ==
    [][FetchFailed(db', req')
          => /\ resp'.msg = "throw"
             /\ Store(db') = Store(db)]_vars

\* C25: when the resolution of a remote actor or note aborts on a payload
\* that is malformed, nothing has been written: the store after the failed
\* resolution equals the store before it.
C25_MalformedPayloadWritesNothing ==
    [][(/\ req'.kind \in {"Resolve", "ResolveUser"}
        /\ req'.net \in {"malformed_note", "malformed_user"}
        /\ resp'.msg = "throw")
          => Store(db') = Store(db)]_vars


\* C26: the failure to resolve one mention of a remote note does not abort
\* the note: resolving a note that replies to nothing and whose author is
\* served, while one of its mentions cannot be resolved, creates the note
\* row with the mentions that did resolve.
C26_MentionFailureSkipped ==
    [][(/\ req'.kind = "Resolve"
        /\ req'.net = "malformed_note"
        /\ Served(req'.arg).replies_to = NoUri
        /\ RowsOfUri(db, req'.arg) = {})
          => /\ resp'.code = 200
             /\ \E n \in db'.Notes :
                   /\ n.uri = req'.arg
                   /\ n.mentions =
                        {Served(req'.arg).mentions[i].v :
                            i \in 1..Len(Served(req'.arg).mentions)}]_vars


---------------------------------------------------------------------------
(* The outcome of a Patch, under SpecPatch *)

\* C27: after a successful Patch of a stored remote note the note's uri was
\* fetched again, the store holds one row under that uri and no row more
\* than before, and the row's content, visibility and mentions are those of
\* the payload served at the uri.
C27_PatchRefreshesRow ==
    [][(/\ req'.kind = "Patch"
        /\ resp'.code = 200
        /\ RowsOfUri(db, req'.arg) # {})
          => /\ Logged(db', "fetch", req'.arg)
             /\ Cardinality(RowsOfUri(db', req'.arg)) = 1
             /\ Cardinality(db'.Notes) = Cardinality(db.Notes)
             /\ \A n \in RowsOfUri(db', req'.arg) :
                   /\ n.content = Served(req'.arg).content
                   /\ n.visibility = Served(req'.arg).visibility
                   /\ n.mentions =
                        {Served(req'.arg).mentions[i].v :
                            i \in 1..Len(Served(req'.arg).mentions)}]_vars


---------------------------------------------------------------------------
(* Re-resolution of stored actors and notes: the associations afterwards *)

\* N2 as its author sends it after an edit that removed its mentions
UnmentionedNote == [ServedNote("N2") EXCEPT !.mentions = << >>]

RecvNoteEdit ==
    \E s \in RemoteActors, u \in Addressed, net \in Nets :
        Deliver(Signed(s, u, net, "Note", NoUri, UnmentionedNote))

NextRefresh == RecvNote \/ RecvNoteEdit \/ RecvUser \/ RecvPatch

SpecRefresh == Init /\ [][NextRefresh]_vars

\* the ids of the users a payload mentions
MentionedIn(note) == {note.mentions[i].v : i \in 1..Len(note.mentions)}

\* the emoji associated with actor a
EmojisOf(d, a) == {e.emoji : e \in {x \in d.EmojiToUser : x.userId = a}}

\* C28: after an already-stored note has been resolved again from a new
\* payload its mentions are exactly those of that payload, and after an
\* already-stored actor has been resolved again from the profile its origin
\* serves its emoji are exactly those of that profile, also when the
\* profile lists none.
C28_AssociationsReplaced ==
    [][/\ (/\ req'.kind = "Note"
           /\ resp'.code = 201
           /\ RowsOfUri(db, req'.note.uri) # {})
             => \A n \in RowsOfUri(db', req'.note.uri) :
                   n.mentions = MentionedIn(req'.note)
       /\ (/\ req'.kind = "User"
           /\ Dispatched(resp')
           /\ req'.net # "down"
           /\ req'.arg.v \in db.Users)
             => EmojisOf(db', req'.arg.v)
                   = ServedUser(req'.arg, req'.net).emojis]_vars

---------------------------------------------------------------------------
(* One-time side effects of a resolution, under SpecRefresh *)

\* the mention notifications of the note with this id
MentionNotifications(d, id) ==
    [x \in {y \in DOMAIN d.Notifications :
                y.type = "mention" /\ y.noteId = id} |-> d.Notifications[x]]

\* C29: over any sequence of resolutions and forced refreshes, an actor is
\* registered in the search index only by the call that creates its row,
\* and the local users a note mentions are notified only by the call that
\* creates the note's row, once each; a call that finds the row stored
\* registers nothing and notifies nobody.
C29_SideEffectsOnCreationOnly ==
    [][/\ \A a \in RemoteActors :
             Logged(db', "index", RemoteUri(a))
                 => a \notin db.Users /\ a \in db'.Users
       /\ \A n \in db'.Notes :
             /\ (\E m \in db.Notes : m.id = n.id)
                   => MentionNotifications(db', n.id)
                         = MentionNotifications(db, n.id)
             /\ \A x \in DOMAIN MentionNotifications(db', n.id) :
                   MentionNotifications(db', n.id)[x] = 1]_vars

\* a stored note that mentions a local user has been resolved again from
\* its payload and updated, and that user holds one notification of it
C29_Witness ==
    /\ req.kind = "Note"
    /\ resp.code = 201
    /\ Logged(db, "update", req.note.uri)
    /\ \E n \in RowsOfUri(db, req.note.uri) :
          /\ "L1" \in n.mentions
          /\ \E x \in DOMAIN MentionNotifications(db, n.id) :
                x.notifiedId = "L1"


---------------------------------------------------------------------------
(* Delivery targets of a local note and of a local actor's profile *)

RECURSIVE RowsOf(_)
\* the rows a query returns, as the array the caller gets
RowsOf(S) ==
    IF S = {} THEN << >>
    ELSE LET a == CHOOSE x \in S : TRUE IN <<a>> \o RowsOf(S \ {a})

RECURSIVE DeduplicatedById(_)
\* fusedUsers.filter((user, index, self) =>
\*     index === self.findIndex((t) => t.id === user.id))
DeduplicatedById(s) ==
    IF s = << >> THEN << >>
    ELSE LET front == DeduplicatedById(SubSeq(s, 1, Len(s) - 1))
         IN IF \E i \in 1..Len(front) : front[i] = s[Len(s)] THEN front
            ELSE Append(front, s[Len(s)])

\* User.manyFromSql(isNotNull(Users.instanceId), undefined, undefined,
\* undefined, {with: {relationships: {where: ...}}}): the condition of the
\* query is isNotNull(Users.instanceId) alone; the `with` names which
\* relationships are loaded with each row and filters no row
usersThatCanSeePost(d, n) == RowsOf({a \in d.Users : ~isLocal(a)})

\* Note.getUsersToFederateTo
getUsersToFederateTo(d, n) ==
    LET mentionedUsers ==
            IF n.mentions # {}
            THEN RowsOf({a \in d.Users : ~isLocal(a) /\ a \in n.mentions})
            ELSE << >>
    IN DeduplicatedById(mentionedUsers \o usersThatCanSeePost(d, n))

\* User.federateToFollowers: the remote users that follow a
federateToFollowers(d, a) ==
    RowsOf({f \in d.Users :
              /\ ~isLocal(f)
              /\ \E r \in d.Relationships :
                    /\ r.subjectId = a /\ r.ownerId = f /\ r.following})

RECURSIVE DeliverAll(_, _)
\* one delivery per entry of the target list
DeliverAll(d, targets) ==
    IF targets = << >> THEN d
    ELSE DeliverAll(Ev(d, "deliver", getUri(Head(targets))), Tail(targets))

\* the mentions a local author may put in a note: stored users
MentionChoices(d) ==
    {ms \in {<< >>, <<"R1">>, <<"R2">>, <<"L2", "R1">>} :
        \A i \in 1..Len(ms) : ms[i] \in d.Users}

\* a local user posts a note: Note.fromData with no uri
PostNote ==
    \E author \in LocalActors, ms \in MentionChoices(db) :
    \E out \in {NoteFromData(Store(db), author,
                             [NoNote EXCEPT !.type = "Note",
                                            !.visibility = "public",
                                            !.content = "c1"],
                             ms, 0, 0)} :
        /\ out.db.nextId <= MaxNoteId + 1
        /\ BagCardinality(out.db.Notifications) <= MaxNotifications
        /\ db' = out.db
        /\ req' = [NoRequest EXCEPT !.kind = "PostNote", !.uuid = author]
        /\ resp' = [code |-> 200, msg |-> out.st]
        /\ UNCHANGED <<cfg, ctx, race>>

\* the federation of a stored local note: one delivery to each user of
\* note.getUsersToFederateTo(); the answer counts the deliveries
FederateNote ==
    \E n \in {m \in db.Notes : isLocal(m.authorId)} :
    \E targets \in {getUsersToFederateTo(db, n)} :
        /\ db' = DeliverAll(Store(db), targets)
        /\ req' = [NoRequest EXCEPT !.kind = "FederateNote",
                                    !.uuid = n.authorId,
                                    !.arg = LocalNoteUri(n.id)]
        /\ resp' = [code |-> Len(targets), msg |-> "deliveries"]
        /\ UNCHANGED <<cfg, ctx, race>>

\* the federation of a local actor's profile to its followers
FederateProfile ==
    \E a \in LocalActors :
    \E targets \in {federateToFollowers(db, a)} :
        /\ db' = DeliverAll(Store(db), targets)
        /\ req' = [NoRequest EXCEPT !.kind = "FederateProfile", !.uuid = a]
        /\ resp' = [code |-> Len(targets), msg |-> "deliveries"]
        /\ UNCHANGED <<cfg, ctx, race>>

NextFederate == RecvFollow \/ PostNote \/ FederateNote \/ FederateProfile

SpecFederate == Init /\ [][NextFederate]_vars

\* the stored remote actors that follow a
RemoteFollowers(d, a) ==
    {f \in d.Users \cap RemoteActors :
        \E r \in d.Relationships :
            r.ownerId = f /\ r.subjectId = a /\ r.following}

\* the actors a step delivered to
DeliveredTo(d) == {a \in Actors : Logged(d, "deliver", getUri(a))}

\* C30: the deliveries made for a local note go to exactly the remote
\* actors that the note mentions or that follow its author (following =
\* true), one delivery each; a remote actor that is neither is no target.
C30_TargetsAreMentionedOrFollowers ==
    [][req'.kind = "FederateNote" =>
          \A n \in db.Notes :
              n.id = req'.arg.n =>
                  /\ DeliveredTo(db') =
                        (n.mentions \cap RemoteActors)
                            \cup RemoteFollowers(db, n.authorId)
                  /\ resp'.code = Cardinality(DeliveredTo(db'))]_vars


---------------------------------------------------------------------------
(* Update of a local actor's profile and the deliveries it starts *)

MaxDeliveries == 4

\* objectToInboxRequest(object, author, userToSendTo): the signed request
\* to the follower's inbox
objectToInboxRequest(object, author, userToSendTo) ==
    [to |-> userToSendTo, from |-> author, object |-> object]

\* a delivery whose outcome the update waits for
DeliveryAtReturn_Awaited == "ok"

\* `fetch(federationRequest);` is not awaited: when federateToFollowers
\* returns, the promise of each delivery is pending
DeliveryAtReturn == "pending"

\* the ways a pending delivery may end; it may also never end
DeliveryOutcomes == {"ok", "failed"}

InitDeliver ==
    /\ db = InitDb
    /\ cfg = BridgeOff
    /\ req = NoRequest
    /\ resp = NoResponse
    /\ ctx = NoCtx
    /\ race = [kind |-> "deliveries", rows |-> 0, proc |-> << >>]

\* User.update({displayName}) of local actor a: the row is written, then
\* federateToFollowers(this.toLysand()) starts one delivery per remote
\* follower, and the updated user is returned.  race.rows counts the calls
\* of fetch, race.proc holds the deliveries started last.
UpdateProfile ==
    \E a \in LocalActors, name \in {"v1", "v2"} :
    \E followers \in {federateToFollowers(Store(db), a)} :
        /\ race.rows + Len(followers) <= MaxDeliveries
        /\ db' = DeliverAll(
                    [Store(db) EXCEPT !.Profiles =
                        {p \in @ : p.id # a} \cup {Profile(a, name, "v1")}],
                    followers)
        /\ race' = [kind |-> "deliveries",
                    rows |-> race.rows + Len(followers),
                    proc |-> [f \in {objectToInboxRequest(name, a,
                                        followers[i]).to :
                                        i \in 1..Len(followers)}
                                |-> DeliveryAtReturn]]
        /\ req' = [NoRequest EXCEPT !.kind = "UpdateProfile", !.uuid = a]
        /\ resp' = [code |-> 200, msg |-> name]
        /\ UNCHANGED <<cfg, ctx>>

\* the promise of a pending delivery settles; nothing awaits it
DeliverySettles ==
    \E f \in DOMAIN race.proc, outcome \in DeliveryOutcomes :
        /\ race.proc[f] = "pending"
        /\ race' = [race EXCEPT !.proc[f] = outcome]
        /\ req' = [req EXCEPT !.kind = "DeliverySettled"]
        /\ UNCHANGED <<db, cfg, resp, ctx>>

NextDeliver == RecvFollow \/ UpdateProfile \/ DeliverySettles

SpecDeliver == InitDeliver /\ [][NextDeliver]_vars

\* C31: the update of a local actor is committed and completes while every
\* delivery it started is still pending, one call of fetch per remote
\* follower; the settling of a delivery, also as a failure, changes neither
\* the store nor the answer of the update and starts no further call of
\* fetch, and no other step makes one: no delivery is retried.
C31_FireAndForget ==
    [][/\ req'.kind = "UpdateProfile" =>
             /\ resp'.code = 200
             /\ \E p \in db'.Profiles :
                   p.id = req'.uuid /\ p.displayName = resp'.msg
             /\ \A f \in DOMAIN race'.proc : race'.proc[f] = "pending"
             /\ DOMAIN race'.proc = RemoteFollowers(db, req'.uuid)
             /\ race'.rows = race.rows
                                + Cardinality(RemoteFollowers(db, req'.uuid))
       /\ req'.kind # "UpdateProfile" =>
             /\ race'.rows = race.rows
             /\ req'.kind = "DeliverySettled" =>
                   /\ Store(db').Profiles = Store(db).Profiles
                   /\ Store(db') = Store(db)
                   /\ resp' = resp]_vars

\* an update to "v2" was answered and stays committed while one of its
\* deliveries has failed and another was never answered
C31_Witness ==
    /\ req.kind = "DeliverySettled"
    /\ resp = [code |-> 200, msg |-> "v2"]
    /\ \E p \in db.Profiles : p.id = req.uuid /\ p.displayName = "v2"
    /\ \E f, g \in DOMAIN race.proc :
          race.proc[f] = "failed" /\ race.proc[g] = "pending"


---------------------------------------------------------------------------
(* Reply and quote targets under resolutions, Patches and Undos *)

\* notes as peers push them to the inbox with links the origins do not
\* serve: N2 quoting N1, N1 edited into a reply to N2, N1 quoting itself;
\* RecvLinkedNote delivers these and the notes as served
LinkedNotes ==
    {[ServedNote("N2") EXCEPT !.replies_to = NoUri,
                              !.quotes = RemoteUri("N1")],
     [ServedNote("N1") EXCEPT !.replies_to = RemoteUri("N2")],
     [ServedNote("N1") EXCEPT !.quotes = RemoteUri("N1")]}

RecvLinkedNote ==
    \E s \in RemoteActors, net \in Nets, n \in InboundNotes \cup LinkedNotes :
        Deliver(Signed(s, "L1", net, "Note", NoUri, n))

NextTargets == RecvLinkedNote \/ RecvPatch \/ RecvUndo \/ ResolveNote

SpecTargets == Init /\ [][NextTargets]_vars

TargetExists(d, id) == id = 0 \/ \E m \in d.Notes : m.id = id

RECURSIVE AncestorLoopExits(_, _, _)
AncestorLoopExits(d, id, fuel) ==
    LET replyId == (CHOOSE n \in d.Notes : n.id = id).replyId IN
    IF replyId = 0 \/ NoteFromId(d, replyId).st # "ok" THEN TRUE
    ELSE IF fuel = 0 THEN FALSE
         ELSE AncestorLoopExits(d, replyId, fuel - 1)

\* C37: getAncestors terminates on every note of every reachable store: the
\* ancestor walk of a note leaves its loop within as many iterations as the
\* store has notes (a longer walk has come back to a row it visited and
\* never ends), that is, the reply-parent relation has no cycle.
C37_AncestorsTerminate ==
    \A n \in db.Notes : AncestorLoopExits(db, n.id, Cardinality(db.Notes))


---------------------------------------------------------------------------
(* Note.resolve of a remote uri, call by call *)

MaxStack == 4

\* what the origins serve: the notes of ServedNote (N2 replies to N1), or
\* N1 as a reply to N2 with N2 replying to N1, or with N2 quoting N1
Worlds == {"chain", "reply_cycle", "quote_cycle"}

ServedIn(world, uri) ==
    IF world = "chain" \/ Served(uri).type # "Note" THEN Served(uri)
    ELSE IF uri.v = "N1"
         THEN [Served(uri) EXCEPT !.replies_to = RemoteUri("N2")]
         ELSE IF world = "quote_cycle"
              THEN [Served(uri) EXCEPT !.replies_to = NoUri,
                                       !.quotes = RemoteUri("N1")]
              ELSE Served(uri)

\* a call of Note.resolve(uri) that has not returned: at is where it
\* stands: at its "start", before ("awaitreply") or in ("reply") the
\* resolution of the reply target, before ("afterreply") or in ("quote")
\* that of the quote target, or at the "insert" of the row
Frame(uri) ==
    [uri |-> uri, at |-> "start", author |-> "", ids |-> << >>,
     replyId |-> 0, quoteId |-> 0]

InitCalls ==
    /\ db = InitDb
    /\ cfg = BridgeOff
    /\ req = NoRequest
    /\ resp = NoResponse
    /\ ctx = NoCtx
    /\ race \in {[kind |-> w, rows |-> 0, proc |-> << >>] : w \in Worlds}

Top == race.proc[Len(race.proc)]

Callers == SubSeq(race.proc, 1, Len(race.proc) - 1)

\* the call on top returns id to the call that awaits it, or to the caller
\* of the resolution
ReturnedTo(stack, id) ==
    IF stack = << >> THEN << >>
    ELSE LET k == Len(stack)
             f == stack[k]
         IN [stack EXCEPT ![k] =
                IF f.at = "reply"
                THEN [f EXCEPT !.replyId = id, !.at = "afterreply"]
                ELSE [f EXCEPT !.quoteId = id, !.at = "insert"]]

\* a local caller calls Note.resolve(uri)
CallStarts ==
    \E nm \in RemoteNoteNames :
        /\ race.proc = << >>
        /\ race' = [race EXCEPT !.proc = <<Frame(RemoteUri(nm))>>,
                                 !.rows = 0]
        /\ req' = [NoRequest EXCEPT !.kind = "Resolve", !.arg = RemoteUri(nm)]
        /\ resp' = NoResponse
        /\ db' = Store(db)
        /\ UNCHANGED <<cfg, ctx>>

\* Note.resolve finds the row of the uri and returns it
CallHits ==
    /\ race.proc # << >>
    /\ Top.at = "start"
    /\ NotesWithUri(db, Top.uri) # {}
    /\ race' = [race EXCEPT !.proc =
                  ReturnedTo(Callers, FirstById(NotesWithUri(db, Top.uri)).id)]
    /\ db' = Ev(db, "hit", Top.uri)
    /\ resp' = IF Callers = << >> THEN [code |-> 200, msg |-> "ok"] ELSE resp
    /\ UNCHANGED <<cfg, req, ctx>>

\* a rejection inside the resolution rejects every call that awaits it
Rejects(d) ==
    /\ race' = [race EXCEPT !.proc = << >>, !.rows = @ + 1]
    /\ db' = d
    /\ resp' = [code |-> 500, msg |-> "throw"]

\* Note.saveFromRemote up to the arguments of fromData: the note is
\* fetched, its author and its mentions are resolved
CallFetches ==
    \E net \in Nets :
    /\ race.proc # << >>
    /\ Top.at = "start"
    /\ NotesWithUri(db, Top.uri) = {}
    /\ LET d0 == Ev(db, "fetch", Top.uri)
           note == ServedIn(race.kind, Top.uri)
       IN IF net = "down" \/ note.type # "Note" THEN Rejects(d0)
          ELSE \E author \in {UserResolve(d0, note.author, net)} :
               \E ms \in {ResolveMentions(author.db, note.mentions, net)} :
               IF author.st # "ok" THEN Rejects(author.db)
               ELSE IF ms.threw THEN Rejects(ms.db)
               ELSE /\ db' = ms.db
                    /\ resp' = resp
                    /\ race' = [race EXCEPT
                         !.rows = @ + 1,
                         !.proc[Len(race.proc)] =
                            [Top EXCEPT !.author = author.id, !.ids = ms.ids,
                                        !.at = "awaitreply"]]
    /\ UNCHANGED <<cfg, req, ctx>>

\* note.replies_to ? (await Note.resolve(note.replies_to))?.getStatus().id
\*                 : undefined, and the same for note.quotes
CallResolvesTarget ==
    /\ race.proc # << >>
    /\ Top.at \in {"awaitreply", "afterreply"}
    /\ LET note == ServedIn(race.kind, Top.uri)
           target == IF Top.at = "awaitreply" THEN note.replies_to
                     ELSE note.quotes
           k == Len(race.proc)
       IN IF target = NoUri
          THEN race' = [race EXCEPT !.proc[k].at =
                           IF Top.at = "awaitreply" THEN "afterreply"
                           ELSE "insert"]
          ELSE /\ k < MaxStack
               /\ race' = [race EXCEPT !.proc =
                             [@ EXCEPT ![k].at =
                                 IF Top.at = "awaitreply" THEN "reply"
                                 ELSE "quote"]
                             \o <<Frame(target)>>]
    /\ UNCHANGED <<db, cfg, req, resp, ctx>>

\* Note.fromData with the resolved author, mentions and targets; the row's
\* id is returned
CallInserts ==
    /\ race.proc # << >>
    /\ Top.at = "insert"
    /\ db.nextId <= MaxNoteId
    /\ \E out \in {NoteFromData(db, Top.author, ServedIn(race.kind, Top.uri),
                                Top.ids, Top.replyId, Top.quoteId)} :
          /\ db' = out.db
          /\ race' = [race EXCEPT !.proc =
                        IF out.st = "ok" THEN ReturnedTo(Callers, out.id)
                        ELSE << >>]
          /\ resp' = IF out.st # "ok" THEN [code |-> 500, msg |-> "throw"]
                     ELSE IF Callers = << >> THEN [code |-> 200, msg |-> "ok"]
                     ELSE resp
    /\ UNCHANGED <<cfg, req, ctx>>

NextCalls ==
    CallStarts \/ CallHits \/ CallFetches \/ CallResolvesTarget
        \/ CallInserts

SpecCalls == InitCalls /\ [][NextCalls]_vars

\* C33: the resolution of a remote note terminates whatever finite set of
\* payloads the origins serve, reply and quote cycles with no note stored
\* included: no call of Note.resolve is made for a uri that a call still
\* awaiting its result was made for (such a call finds the store as its
\* predecessor did, no note row having been written since, and repeats it
\* without end).
C33_ResolutionTerminates ==
    \A i, j \in 1..Len(race.proc) :
        i # j => race.proc[i].uri # race.proc[j].uri


---------------------------------------------------------------------------
(* The client API: statuses/:id/unfavourite and statuses/:id/reblog *)

MaxReblogs == 2

\* the callers of the API: "" is a request without a valid token
ApiUsers == LocalActors \cup {""}

StatusIds == 1..MaxNoteId

Like(user, id) == [likerId |-> user, likedId |-> id]

\* createLike(user, note): the Likes row of the pair
createLike(d, user, id) == [d EXCEPT !.Likes = @ \cup {Like(user, id)}]

\* deleteLike(user, note): the Likes rows of the pair are deleted
deleteLike(d, user, id) == [d EXCEPT !.Likes = @ \ {Like(user, id)}]

\* Note.toAPI(user).favourited
Favourited(d, user, id) ==
    IF Like(user, id) \in d.Likes THEN "favourited" ELSE "not favourited"

\* POST /api/v1/statuses/:id/favourite
FavouriteRoute(d, user, id) ==
    IF user = "" THEN Out(d, 401, "Unauthorized")
    ELSE IF NoteFromId(d, id).st # "ok" THEN Out(d, 404, "Record not found")
    ELSE LET d1 == createLike(d, user, id)
         IN Out(d1, 200, Favourited(d1, user, id))

\* an unfavourite that refuses a note the user has not favourited
UnfavouriteRoute_RequiresLike(d, user, id) ==
    IF user = "" THEN Out(d, 401, "Unauthorized")
    ELSE IF Like(user, id) \notin d.Likes
         THEN Out(d, 404, "Record not found")
         ELSE Out(deleteLike(d, user, id), 200, "not favourited")

\* POST /api/v1/statuses/:id/unfavourite.  `!note?.isViewableByUser(user)`
\* negates the Promise of an existing note, which is truthy: only a missing
\* note is answered 404.
UnfavouriteRoute(d, user, id) ==
    IF user = "" THEN Out(d, 401, "Unauthorized")
    ELSE IF \/ NoteFromId(d, id).st # "ok"
            \/ ~PromiseIsTruthy(isViewableByUser(d, id, user, ""))
         THEN Out(d, 404, "Record not found")
    ELSE LET d1 == deleteLike(d, user, id) IN
         IF NoteFromId(d1, id).st # "ok" THEN Out(d1, 404, "Record not found")
         ELSE Out(d1, 200, Favourited(d1, user, id))

\* findFirstStatuses({ where: eq(status.id, id) })
findFirstStatuses(d, id) == {n \in d.Notes : n.id = id}

\* isViewableByUser(foundStatus, user) of database/entities/Status
StatusIsViewableByUser(d, id, user) ==
    isViewableByUser(d, id, user, "") = "true"

\* db.query.status.findFirst({ where: (status, { and, eq }) => and(
\*     eq(status.authorId, user.id), eq(status.reblogId, status.id)) }):
\* status is the table of the query in both operands, so a row matches when
\* its reblogId is its own id
existingReblog(d, user, id) ==
    {n \in d.Notes : n.authorId = user /\ n.reblogId = n.id}

\* POST /api/v1/statuses/:id/reblog
ReblogRoute(d, user, id, visibility) ==
    IF user = "" THEN Out(d, 401, "Unauthorized")
    ELSE
    LET foundStatus == findFirstStatuses(d, id) IN
    IF foundStatus = {} \/ ~StatusIsViewableByUser(d, id, user)
    THEN Out(d, 404, "Record not found")
    ELSE IF existingReblog(d, user, id) # {}
    THEN Out(d, 422, "Already reblogged")
    ELSE
    LET found == CHOOSE n \in foundStatus : TRUE
        newReblog == [id |-> d.nextId, uri |-> NoUri, authorId |-> user,
                      visibility |-> visibility, content |-> "",
                      replyId |-> 0, quotingId |-> 0,
                      reblogId |-> found.id, mentions |-> {}]
        d1 == [d EXCEPT !.Notes = @ \cup {newReblog}, !.nextId = @ + 1]
        \* foundStatus.author.instanceId === user.instanceId
        d2 == IF isLocal(found.authorId)
              THEN [d1 EXCEPT !.Notifications = @ (+) SetToBag({
                       [accountId |-> user, notifiedId |-> found.authorId,
                        type |-> "reblog", noteId |-> found.reblogId]})]
              ELSE d1
    IN Out(d2, 200, "reblogged")

\* a local user posts a public or a direct note
PostStatus ==
    \E author \in LocalActors, visibility \in {"public", "direct"} :
    \E out \in {NoteFromData(Store(db), author,
                             [NoNote EXCEPT !.type = "Note",
                                            !.visibility = visibility,
                                            !.content = "c1"],
                             << >>, 0, 0)} :
        /\ out.db.nextId <= MaxNoteId + 1
        /\ db' = out.db
        /\ req' = [NoRequest EXCEPT !.kind = "PostNote", !.uuid = author]
        /\ resp' = [code |-> 200, msg |-> "posted"]
        /\ UNCHANGED <<cfg, ctx, race>>

ApiCall(kind, user, id, out) ==
    /\ db' = out.db
    /\ req' = [NoRequest EXCEPT !.kind = kind, !.uuid = user,
                                !.arg = LocalNoteUri(id)]
    /\ resp' = out.resp
    /\ UNCHANGED <<cfg, ctx, race>>

Favourite ==
    \E user \in ApiUsers, id \in StatusIds :
        ApiCall("Favourite", user, id, FavouriteRoute(Store(db), user, id))

Unfavourite ==
    \E user \in ApiUsers, id \in StatusIds :
        ApiCall("Unfavourite", user, id, UnfavouriteRoute(Store(db), user, id))

Reblogs(d) == {n \in d.Notes : n.reblogId # 0}

Reblog ==
    \E user \in ApiUsers, id \in StatusIds :
    \E out \in {ReblogRoute(Store(db), user, id, "public")} :
        /\ Cardinality(Reblogs(out.db)) <= MaxReblogs
        /\ BagCardinality(out.db.Notifications) <= MaxNotifications
        /\ ApiCall("Reblog", user, id, out)

NextFavourite == PostStatus \/ Favourite \/ Unfavourite

SpecFavourite == Init /\ [][NextFavourite]_vars

NextReblog == PostStatus \/ Reblog

SpecReblog == Init /\ [][NextReblog]_vars

\* C34: an unauthenticated unfavourite is answered 401 and removes no
\* like; an authenticated unfavourite of a stored note succeeds and leaves
\* the note not favourited by the user, whether or not it was favourited
\* before, every other like being kept; when it was not favourited (as
\* after a first unfavourite) the store stays as it is and the answer is
\* the same success.
C34_UnfavouriteIdempotent ==
    [][req'.kind = "Unfavourite" =>
        LET user == req'.uuid
            id == req'.arg.n
        IN IF user = ""
           THEN resp'.code = 401 /\ db'.Likes = db.Likes
           ELSE (\E n \in db.Notes : n.id = id) =>
                  /\ resp' = [code |-> 200, msg |-> "not favourited"]
                  /\ db'.Likes = db.Likes \ {Like(user, id)}
                  /\ Like(user, id) \notin db.Likes => db' = Store(db)]_vars

\* L1 has unfavourited a status that L2 still favourites
C34_Witness ==
    /\ req.kind = "Unfavourite"
    /\ req.uuid = "L1"
    /\ resp = [code |-> 200, msg |-> "not favourited"]
    /\ Like("L2", req.arg.n) \in db.Likes
    /\ Like("L1", req.arg.n) \notin db.Likes

\* C40: a user holds at most one reblog of a status: whatever reblog
\* requests were made, no two rows of one author reblog the same status.
C40_OneReblogPerStatus ==
    \A m, n \in Reblogs(db) :
        m.authorId = n.authorId /\ m.reblogId = n.reblogId => m = n


---------------------------------------------------------------------------
(* Inbound activities and the actor they are attributed to *)

\* the author an activity declares: note.author, follow.author, ...
DeclaredAuthor(r) == IF r.kind = "Note" THEN r.note.author ELSE r.arg

\* what the store attributes to actor x: its relationships, the
\* notifications it caused, its notes
AttributedTo(d, x) ==
    [relationships |-> {r \in d.Relationships :
                            r.ownerId = x \/ r.subjectId = x},
     notifications |-> [n \in {m \in DOMAIN d.Notifications :
                                  m.accountId = x} |-> d.Notifications[n]],
     notes |-> {n \in d.Notes : n.authorId = x}]

\* C35: with the bridge off, an inbound Follow, FollowAccept, FollowReject
\* or Note creates or changes a relationship, a notification or a note
\* attributed to its declared author only when the request carries a
\* checked, valid Signature of that author.
C35_ChangesOnlyForAuthenticatedAuthor ==
    [][(/\ req'.kind \in {"Follow", "FollowAccept", "FollowReject", "Note"}
        /\ ~cfg.bridge
        /\ AttributedTo(db', DeclaredAuthor(req').v)
              # AttributedTo(db, DeclaredAuthor(req').v))
          => AuthenticatedAs(db', req', DeclaredAuthor(req').v)]_vars


\* C36: an Undo that the handler answers with an error (its signer being a
\* stored actor already) leaves every table of the store as it was: no row
\* is created, updated or deleted.
C36_FailedUndoWritesNothing ==
    [][(/\ req'.kind = "Undo"
        /\ req'.signedBy \in db.Users
        /\ Dispatched(resp')
        /\ resp'.code >= 400)
          => Store(db') = Store(db)]_vars


Pending(d, a, u) ==
    \E r \in d.Relationships :
        r.ownerId = a /\ r.subjectId = u /\ r.requested

\* C39: the authorize operation of local user u for account a makes a
\* follow u, and sends a follow-accept to a, only when a's request to
\* follow u was pending (requested = true) before the operation.
C39_AuthorizeNeedsPendingRequest ==
    [][(/\ req'.kind = "Authorize"
        /\ ~Pending(db, req'.arg.v, req'.uuid)
        /\ ~Following(db, req'.arg.v, req'.uuid))
          => /\ ~Following(db', req'.arg.v, req'.uuid)
             /\ ~Logged(db', "deliver", req'.arg)]_vars


FollowRequestNotifications(d, a, u) ==
    CopiesIn([accountId |-> a, notifiedId |-> u, type |-> "follow_request",
              noteId |-> 0], d.Notifications)

\* C38: a Follow from remote actor a to locked local actor u that arrives
\* while a's request is pending leaves the relationship at requested = true,
\* following = false, adds no follow-request notification to the one the
\* first Follow created, and sends no follow-accept.
C38_RepeatedFollowRequestIsIdempotent ==
    [][(/\ req'.kind = "Follow"
        /\ resp'.code = 200
        /\ isLocked(req'.uuid)
        /\ Pending(db, req'.arg.v, req'.uuid)
        /\ ~Following(db, req'.arg.v, req'.uuid))
          => /\ Pending(db', req'.arg.v, req'.uuid)
             /\ ~Following(db', req'.arg.v, req'.uuid)
             /\ ~Logged(db', "deliver", req'.arg)
             /\ FollowRequestNotifications(db, req'.arg.v, req'.uuid) = 1
             /\ FollowRequestNotifications(db', req'.arg.v, req'.uuid) = 1]_vars

=============================================================================
